---------------------------- MODULE Spec2Model ----------------------------
(***************************************************************************)
(* Verification model of the sigalyze audio engine (src/engine.h,          *)
(* src/engine.cpp).                                                        *)
(*                                                                         *)
(* The components are modelled each with its own specification:            *)
(*   SpecQueue  : TimedDataQueue<data_t>           (src/engine.h)          *)
(*   SpecOut    : AudioOutputDriver                (src/engine.cpp)        *)
(*   SpecPipe   : AudioPipe, its pump thread and its client                *)
(*   SpecEngine : Engine, with the AudioPipe it owns                       *)
(*   SpecRMS    : RMSProcessor                                             *)
(*   SpecFFT    : FFTProcessor                                             *)
(*   SpecConv   : AudioInputSource::start and the sample converters        *)
(*   SpecDeliver: the signal path from the pump to the analyzers           *)
(*   SpecTime   : AudioOutputDriver::write_samples and time() at the mutex *)
(*   SpecRun    : one FFTProcessor against the function of its input       *)
(*   SpecRMSAny : RMSProcessor with sample rates below 10 Hz as well       *)
(*   SpecFFTAny : FFTProcessor with a period of 0 ms as well               *)
(* A specification leaves the variables of the other components at their   *)
(* initial values.                                                         *)
(***************************************************************************)
EXTENDS Integers, Sequences, FiniteSets, TLC

(***************************************************************************)
(* Bounds of the model.                                                    *)
(***************************************************************************)
\* largest capacity a TimedDataQueue is constructed with (0..MaxBlocks)
MaxBlocks == 3
\* timestamps of queue items and fetch clocks range over 0..MaxTime
MaxTime == 2
\* number of push_block calls in one behaviour
MaxPushes == 4
\* channel counts of the output format range over 1..MaxChannels
MaxChannels == 2
\* frames per block handed to write_samples range over 1..MaxFrames
MaxFrames == 2
\* samples submitted to write_samples in one behaviour
MaxSubmitted == 6
\* drop_msecs given to the AudioOutputDriver ranges over 0..MaxDropMsecs
MaxDropMsecs == 2
\* buffer_msecs given to the AudioOutputDriver ranges over 1..MaxBufferMsecs
MaxBufferMsecs == 1
\* the device's processed time advances in steps of DeviceStepUsecs, at most
\* MaxDeviceSteps times in one behaviour
DeviceStepUsecs == 500
MaxDeviceSteps == 2
\* sample rates of the output format
SampleRates == {1000, 1500}
\* number of read_samples calls of the pump in one behaviour
MaxReads == 2
\* number of AudioPipe::stop calls of the client in one behaviour
MaxStops == 2
\* values a captured sample takes
SampleValues == {1, 2}
\* number of calls the client makes on the Engine in one behaviour
MaxCalls == 5
\* slots of RMSProcessor::m_backlog (std::array<float, 32>)
BacklogSize == 32
\* number of RMSProcessor::process_samples calls in one behaviour
MaxRmsCalls == 3
\* non-zero samples, blocks that repeat the previous block's time, and
\* changes of the sample rate in one behaviour of the RMSProcessor
MaxLoud == 1
MaxStale == 1
MaxRateChanges == 1
\* sample rates of the blocks handed to the RMSProcessor
RmsRates == {10, 20, 25}
\* number of FFTProcessor::process_samples calls in one behaviour
MaxFftCalls == 4
\* blocks handed to the FFTProcessor hold 0..MaxFftLen samples
MaxFftLen == 3
\* number of blocks that reach the FFTProcessor after a gap of FftGapUsecs
MaxLate == 1
FftGapUsecs == 700
\* period_msec given to the FFTProcessor ranges over 1..MaxPeriodMsec
MaxPeriodMsec == 2
\* sizes the FFTProcessor is constructed with
FftSizes == {2, 3}
\* sample rates of the blocks handed to the FFTProcessor
FftRates == {1000, 2000}
\* numbers of samples of the blocks handed to the RMSProcessor
RmsBlockLens == {1, 2, 3, 2 * BacklogSize}
\* QAudioFormat::SampleType values and sample sizes the device may report
SampleTypes == {"SignedInt", "UnSignedInt", "Float", "Unknown"}
SampleSizes == {8, 16, 24, 32, 64}
\* integer samples lie within MaxOffset of the limits of their type, of
\* zero, and of a value in between
MaxOffset == 3
\* number of samples read from one AudioInputSource
MaxConversions == 2
\* number of time() calls made while write_samples runs
MaxTimeCalls == 2
\* passes of the loop of one process_samples call that are followed
MaxPasses == 4
\* sample rates of SampleBlocks, one below the 10 Hz of one sample per window
AnyRmsRates == {5, 10}
\* length of the blocks handed to the RMSProcessor with those rates
MaxAnyLen == 2
\* values the uninitialised m_t of a fresh FFTProcessor may hold,
\* microseconds
GarbageTimes == {0, 777}
\* the base of the limbs integers are kept in
LimbBase == 65536
\* significant bits of a float
MantissaBits == 24
\* 1.0f in units of 2^-25
FloatOne == 33554432
\* float samples a device of format Float delivers, in units of 2^-25
RawSamples == {-FloatOne, -1, 0, 3, FloatOne}

VARIABLES
    \* ---- TimedDataQueue (src/engine.h:121-159) ----
    m_max_blocks,   \* capacity given to the constructor
    m_blocks,       \* std::queue<data_t>, front first; items are [t, id]
    q_pushes,       \* number of push_block calls so far (also the next id)
    q_op,           \* last operation: "none", "push", "fetch", "abort"
    q_pre,          \* m_blocks before the last operation
    q_arg,          \* pushed item, or the clock value of the last fetch
    q_out,          \* items delivered by the last fetch_up_to, in order
    q_evicted,      \* items popped by the last push_block, in order
    q_ub            \* TRUE once pop() was called on an empty std::queue

qvars == <<m_max_blocks, m_blocks, q_pushes, q_op, q_pre, q_arg, q_out,
           q_evicted, q_ub>>

VARIABLES
    \* ---- AudioOutputDriver (src/engine.cpp:466-570) ----
    o_state,              \* "constructed" or "started"
    o_channels,           \* m_format.channelCount()
    o_rate,               \* m_format.sampleRate()
    m_buffer_msecs,
    m_drop_msecs,
    m_drop_samples,
    m_t0,
    m_buffer_delay,       \* microseconds
    m_outer_buffer,       \* the overflow buffer: sequence of sample ids
    m_dropped,            \* microseconds
    m_outer_buffer_delay, \* microseconds
    dev_processed,        \* m_output->processedUSecs()
    dev_steps,            \* number of advances of dev_processed so far
    dev_written,          \* sample ids the device accepted, in order
    o_submitted,          \* number of samples handed to write_samples so far
    o_op,                 \* last operation: "none", "start", "write", "device"
    o_time_before,        \* time() right before the last write_samples
    o_pre_dev,            \* dev_written before the last write_samples
    o_pre_outer,          \* m_outer_buffer before the last write_samples
    o_pre_dropped,        \* m_dropped before the last write_samples
    o_samples,            \* the block of the last write_samples
    o_residue             \* m_outer_buffer after the drain of the last write

ovars == <<o_state, o_channels, o_rate, m_buffer_msecs, m_drop_msecs,
           m_drop_samples, m_t0, m_buffer_delay, m_outer_buffer, m_dropped,
           m_outer_buffer_delay, dev_processed, dev_steps, dev_written,
           o_submitted, o_op, o_time_before, o_pre_dev, o_pre_outer,
           o_pre_dropped, o_samples, o_residue>>

VARIABLES
    \* ---- AudioPipe (src/engine.cpp:573-682) ----
    p_channels,           \* m_source->channel_count()
    p_rate,               \* m_source->sample_rate()
    m_terminated,         \* std::atomic_bool
    m_new_source_thread,  \* "null" or "caller"
    m_startup_done,
    m_source,             \* "src" while the pipe holds the source, else "null"
    m_sink,               \* "sink" while the pipe holds the sink, else "null"
    m_sample_buffer,      \* samples of the current read, interleaved
    src_state,            \* the source: "new", "started", "stopped", "destroyed"
    src_thread,           \* thread the source lives in: "caller" or "pipe"
    sink_state,           \* the sink: "new", "started", "stopped"
    pump_pc,              \* position of the pump thread in run()
    pump_t,               \* time reported by the current read
    client_pc,            \* position of the thread that owns the AudioPipe
    p_nreads,             \* number of read_samples calls so far
    p_nstops,             \* number of AudioPipe::stop calls so far
    p_starts,             \* start() calls of the pump, in order
    p_reads,              \* successful non-empty reads, in order: [t, samples]
    p_published,          \* SampleBlocks emitted by samples_available, in order
    p_sink_writes,        \* arguments of m_sink->write_samples, in order
    p_stop,               \* the last AudioPipe::stop call
    p_failed,             \* TRUE once a read_samples call reported failure
    p_term_mark           \* the numbers of reads, published blocks and sink
                          \* writes at the moment m_terminated was set;
                          \* all -1 while it is not set

pvars == <<p_channels, p_rate, m_terminated, m_new_source_thread,
           m_startup_done, m_source, m_sink, m_sample_buffer, src_state,
           src_thread, sink_state, pump_pc, pump_t, client_pc, p_nreads,
           p_nstops, p_starts, p_reads, p_published, p_sink_writes, p_stop,
           p_failed, p_term_mark>>

VARIABLES
    \* ---- Engine (src/engine.cpp:686-767) ----
    m_source_latch,       \* "src" while the Engine holds the source, else "null"
    m_audio_pipe,         \* "pipe" while the Engine holds an AudioPipe, else "null"
    m_output_device_info, \* "null", "device" or "unsupported" (a device that
                          \* does not support the format of the source)
    e_pc,                 \* position of the client inside an Engine call
    e_op,                 \* the last Engine call: [call, err]
    e_calls,              \* number of Engine calls so far
    e_pipes               \* number of AudioPipes constructed so far

evars == <<m_source_latch, m_audio_pipe, m_output_device_info, e_pc, e_op,
           e_calls, e_pipes>>

VARIABLES
    \* ---- RMSProcessor (src/engine.cpp:249-308) ----
    rms_t0,            \* RMSProcessor::m_t0, microseconds
    rms_sample_rate,   \* RMSProcessor::m_sample_rate
    rms_sample_buffer, \* RMSProcessor::m_sample_buffer: samples [id, rate, v]
    m_backlog,         \* std::array<float, 32>, slot i of the code is i + 1
    m_backlog_index,
    rms_pc,            \* position in process_samples: "idle" between calls,
                       \* "loop" at the test of the while loop
    rms_processed,     \* the local variable processed
    rms_in,            \* the block of the last process_samples call
    rms_out,           \* the RMSBlocks the last call emitted, in order
    rms_pre_buffer,    \* m_sample_buffer before the last call
    rms_changed,       \* the last call's rate differed from the call before
    rms_run,           \* the run of blocks of one rate the last call is in
    rms_prev_emit,     \* timestamp of the run's last RMSBlock before the last
                       \* call, -1 when there is none
    rms_hist,          \* the last BacklogSize curr values emitted, oldest
                       \* first
    rms_calls,         \* number of process_samples calls so far
    rms_nsamples,      \* number of samples received so far (the next id)
    rms_nloud,         \* number of non-zero samples received so far
    rms_nstale,        \* number of blocks that repeated the previous time
    rms_nchanges       \* number of rate changes so far

rvars == <<rms_t0, rms_sample_rate, rms_sample_buffer, m_backlog,
           m_backlog_index, rms_pc, rms_processed, rms_in, rms_out, rms_pre_buffer, rms_changed,
           rms_run, rms_prev_emit, rms_hist, rms_calls, rms_nsamples,
           rms_nloud, rms_nstale, rms_nchanges>>

VARIABLES
    \* ---- FFTProcessor (src/engine.cpp:328-422) ----
    m_size,            \* samples per transform
    m_period_msec,
    fft_t,             \* FFTProcessor::m_t, microseconds
    fft_sample_rate,   \* FFTProcessor::m_sample_rate
    m_shift_remaining,
    m_in_buffer,       \* samples [id, rate]
    fft_pc,            \* position in process_samples: "idle" between calls,
                       \* "loop" at the test of the while loop
    fft_in,            \* the block of the last process_samples call
    fft_out,           \* the RealFFTBlocks the last call emitted, in order
    fft_pre_buffer,    \* m_in_buffer before the last call
    fft_pre_shift,     \* m_shift_remaining before the last call
    fft_changed,       \* the last call's rate differed from the call before
    fft_change,        \* the last block that came with a new rate, and the
                       \* number of RealFFTBlocks emitted since
    fft_prev_start,    \* id of the first sample of the run's last
                       \* RealFFTBlock before the last call, -1 when none
    fft_calls,         \* number of process_samples calls so far
    fft_nsamples,      \* number of samples received so far (the next id)
    fft_nlate,         \* number of blocks that came after a gap
    fft_nchanges       \* number of rate changes so far

fvars == <<m_size, m_period_msec, fft_t, fft_sample_rate, m_shift_remaining,
           m_in_buffer, fft_pc, fft_in, fft_out, fft_pre_buffer,
           fft_pre_shift, fft_changed, fft_change, fft_prev_start, fft_calls,
           fft_nsamples, fft_nlate, fft_nchanges>>

VARIABLES
    \* ---- AudioInputSource and its converter (src/engine.cpp:13-234) ----
    c_pc,              \* "new", "started", or "failed" once start() threw
    c_sample_type,     \* m_input->format().sampleType()
    c_sample_size,     \* m_input->format().sampleSize()
    m_converter,       \* "unset" before start(), "null" for nullptr, else
                       \* the int_t of the IntToFloatConverter
    c_error,           \* what make_converter threw, NoError if nothing
    c_last,            \* the last read: "none", "converted" or "raw"
    c_in,              \* the integer sample of the last converting read
    c_raw,             \* the float sample of the last read without converter
    c_out,             \* the float the last read put into dest; floats are
                       \* counted in units of 2^-25
    c_nconv            \* number of reads so far

cvars == <<c_pc, c_sample_type, c_sample_size, m_converter, c_error, c_last,
           c_in, c_raw, c_out, c_nconv>>

VARIABLES
    \* ---- the signal path from the pump to the analyzers ----
    d_connected,       \* the connection of rebuild_pipe exists
    d_engine_events,   \* the blocks posted to the Engine's thread and not
                       \* yet relayed, oldest first
    d_events,          \* per analyzer: the blocks posted to its thread and
                       \* not yet taken, oldest first
    d_busy,            \* per analyzer: the block its slot is processing, as
                       \* a sequence of length 0 or 1
    d_done             \* per analyzer: the blocks its slot has processed

dvars == <<d_connected, d_engine_events, d_events, d_busy, d_done>>

VARIABLES
    \* ---- AudioOutputDriver::m_time_mutex and the two threads at it ----
    m_time_mutex,      \* "free", "exclusive" (write_samples) or "shared"
                       \* (time)
    w_pc,              \* position of the pump thread in write_samples:
                       \* "idle", "lock", "dropped", "delay", "unlock"
    w_effect,          \* of the write_samples call in progress or last made:
                       \* whether it drops, and m_outer_buffer_delay and
                       \* m_dropped before and after its update
    t_pc,              \* position of the consumer thread in time(): "idle"
                       \* or "read"
    t_seen,            \* what the time() call in progress or last made has
                       \* read of the two members, -1 for not yet read
    t_calls            \* number of time() calls so far

tvars == <<m_time_mutex, w_pc, w_effect, t_pc, t_seen, t_calls>>

VARIABLES
    \* ---- the run of one FFTProcessor, written down ----
    fft_blocks,        \* the SampleBlocks handed to process_samples so far
    fft_all            \* the RealFFTBlocks emitted so far

gvars == <<fft_blocks, fft_all>>

\* the variables of the components added to the six of the first
\* specifications
xvars == <<cvars, dvars, tvars, gvars>>

vars == <<qvars, ovars, pvars, evars, rvars, fvars, xvars>>

(***************************************************************************)
(* TimedDataQueue                                                          *)
(***************************************************************************)
\* An item of the queue: the timestamp the queue looks at, and an identity.
Item(t, id) == [t |-> t, id |-> id]

\* TimedDataQueue(max_blocks): any uint32_t is accepted, 0 included.
TimedDataQueue(max_blocks) ==
    /\ m_max_blocks = max_blocks
    /\ m_blocks = <<>>

\* Number of items the loop of fetch_up_to pops: the loop looks at the front
\* only, and stops at the first front item with block.t > t.
RECURSIVE FrontRun_all(_, _)
FrontRun_all(q, t) ==
    IF q = <<>> THEN 0
    ELSE IF Head(q).t <= t + 1 THEN 1 + FrontRun_all(Tail(q), t)
    ELSE 0

\* The test of the loop body: the front item is moved to dest.
Delivers_lt(block_t, t) == block_t < t

Delivers(block_t, t) == block_t <= t

RECURSIVE FrontRun(_, _)
FrontRun(q, t) ==
    IF q = <<>> THEN 0
    ELSE IF Delivers(Head(q).t, t) THEN 1 + FrontRun(Tail(q), t)
    ELSE 0

\* fetch_up_to(t, dest): moves the front run to dest and pops it.
fetch_up_to(t) ==
    /\ q_op # "abort"
    /\ LET n == FrontRun(m_blocks, t) IN
         /\ q_out' = SubSeq(m_blocks, 1, n)
         /\ m_blocks' = SubSeq(m_blocks, n + 1, Len(m_blocks))
    /\ q_op' = "fetch"
    /\ q_pre' = m_blocks
    /\ q_arg' = t
    /\ q_evicted' = <<>>
    /\ UNCHANGED <<m_max_blocks, q_pushes, q_ub>>

\* The condition under which push_block pops before it inserts.
MustEvict(size, max_blocks) == size >= max_blocks

\* The queue after the pop of push_block on a non-empty queue.
AfterPop(q) == Tail(q)

\* push_block(block) on a queue where the pop, if any, is defined.
push_block_defined(block) ==
    /\ ~(MustEvict(Len(m_blocks), m_max_blocks) /\ m_blocks = <<>>)
    /\ IF MustEvict(Len(m_blocks), m_max_blocks)
       THEN /\ m_blocks' = Append(AfterPop(m_blocks), block)
            /\ q_evicted' = SubSeq(m_blocks, 1,
                                   Len(m_blocks) - Len(AfterPop(m_blocks)))
       ELSE /\ m_blocks' = Append(m_blocks, block)
            /\ q_evicted' = <<>>
    /\ q_op' = "push"
    /\ UNCHANGED q_ub

\* push_block(block) with m_max_blocks = 0 on an empty queue: size() >= 0
\* holds, so std::queue::pop() runs on an empty container, which is
\* undefined behaviour.  The outcomes modelled: the pop has no effect and
\* the item is inserted; the container's counters wrap and the inserted
\* item is not visible afterwards; the run-time check of a hardened
\* standard library aborts the program.
push_block_undefined(block) ==
    /\ MustEvict(Len(m_blocks), m_max_blocks) /\ m_blocks = <<>>
    /\ \E outcome \in {"noop", "wrap", "abort"} :
         /\ m_blocks' = IF outcome = "noop" THEN <<block>> ELSE <<>>
         /\ q_op' = IF outcome = "abort" THEN "abort" ELSE "push"
    /\ q_evicted' = <<>>
    /\ q_ub' = TRUE

push_block(t) ==
    /\ q_op # "abort"
    /\ q_pushes < MaxPushes
    /\ LET block == Item(t, q_pushes + 1) IN
         /\ \/ push_block_defined(block)
            \/ push_block_undefined(block)
         /\ q_arg' = block
    /\ q_pushes' = q_pushes + 1
    /\ q_pre' = m_blocks
    /\ q_out' = <<>>
    /\ UNCHANGED m_max_blocks

InitQueueVars(k) ==
    /\ TimedDataQueue(k)
    /\ q_pushes = 0
    /\ q_op = "none"
    /\ q_pre = <<>>
    /\ q_arg = 0
    /\ q_out = <<>>
    /\ q_evicted = <<>>
    /\ q_ub = FALSE

NextQueue ==
    \/ \E t \in 0..MaxTime : push_block(t) /\ UNCHANGED <<ovars, pvars, evars, rvars, fvars, xvars>>
    \/ \E t \in 0..MaxTime : fetch_up_to(t) /\ UNCHANGED <<ovars, pvars, evars, rvars, fvars, xvars>>

(***************************************************************************)
(* AudioOutputDriver                                                       *)
(***************************************************************************)
\* std::chrono::microseconds(n * 1000000 / sampleRate), as update_buffer_delay
\* and the drop branch of write_samples compute it.
UsecsOfSamples(n, rate) == (n * 1000000) \div rate

\* m_drop_samples(m_drop_msecs * format.sampleRate() / 1000).  The product is
\* a uint32_t in the code; the values of the model stay far below 2^32.
DropSamples(drop_msecs, rate) == (drop_msecs * rate) \div 1000

\* The buffer size start() asks the device for, in bytes.
BufferSize(buffer_msecs, channels, rate) ==
    ((buffer_msecs * channels * rate) \div 1000) * 4

\* m_buffer_delay as start() computes it from m_output->bufferSize().
BufferDelay(buffer_size, channels, rate) ==
    (((buffer_size \div 4) * 1000000) \div rate) \div channels

\* AudioOutputDriver(device, format, buffer_msecs, drop_msecs)
AudioOutputDriver(channels, rate, buffer_msecs, drop_msecs) ==
    /\ o_state = "constructed"
    /\ o_channels = channels
    /\ o_rate = rate
    /\ m_buffer_msecs = buffer_msecs
    /\ m_drop_msecs = drop_msecs
    /\ m_drop_samples = DropSamples(drop_msecs, rate)
    /\ m_dropped = 0
    /\ m_outer_buffer_delay = 0
    /\ m_outer_buffer = <<>>
    /\ m_t0 = 0
    /\ m_buffer_delay = 0

InitOutVars(channels, rate, buffer_msecs, drop_msecs) ==
    /\ AudioOutputDriver(channels, rate, buffer_msecs, drop_msecs)
    /\ dev_processed = 0
    /\ dev_steps = 0
    /\ dev_written = <<>>
    /\ o_submitted = 0
    /\ o_op = "none"
    /\ o_time_before = 0
    /\ o_pre_dev = <<>>
    /\ o_pre_outer = <<>>
    /\ o_pre_dropped = 0
    /\ o_samples = <<>>
    /\ o_residue = <<>>

\* AudioOutputDriver::time()
AudioOutputDriver_time ==
    m_t0 + dev_processed - m_buffer_delay - m_outer_buffer_delay + m_dropped

ohist == <<o_time_before, o_pre_dev, o_pre_outer, o_pre_dropped, o_samples,
           o_residue>>

\* AudioOutputDriver::start(): opens the device, takes m_t0 from the clock
\* and m_buffer_delay from the device's buffer size.
AudioOutputDriver_start(now) ==
    /\ o_state = "constructed"
    /\ o_state' = "started"
    /\ m_t0' = now
    /\ m_buffer_delay' =
          BufferDelay(BufferSize(m_buffer_msecs, o_channels, o_rate),
                      o_channels, o_rate)
    /\ o_op' = "start"
    /\ UNCHANGED <<o_channels, o_rate, m_buffer_msecs, m_drop_msecs,
                   m_drop_samples, m_outer_buffer, m_dropped,
                   m_outer_buffer_delay, dev_processed, dev_steps,
                   dev_written, o_submitted, ohist>>

\* The device plays on: processedUSecs() grows, it never decreases.
DeviceProcess ==
    /\ o_state = "started"
    /\ dev_steps < MaxDeviceSteps
    /\ dev_steps' = dev_steps + 1
    /\ dev_processed' = dev_processed + DeviceStepUsecs
    /\ o_op' = "device"
    /\ UNCHANGED <<o_state, o_channels, o_rate, m_buffer_msecs, m_drop_msecs,
                   m_drop_samples, m_t0, m_buffer_delay, m_outer_buffer,
                   m_dropped, m_outer_buffer_delay, dev_written, o_submitted,
                   ohist>>

\* The drop test of write_samples on total_samples.
ShouldDrop_gt(total_samples, drop_samples) == total_samples > drop_samples

ShouldDrop(total_samples, drop_samples) == total_samples >= drop_samples

\* The second test of write_samples: the first write left samples in the
\* overflow buffer.
HasResidue_never(outer_buffer) == FALSE

HasResidue(outer_buffer) == outer_buffer # <<>>

\* m_outer_buffer.clear() of the drop branch.
AfterDrop_kept(outer_buffer) == outer_buffer

AfterDrop(outer_buffer) == <<>>

\* AudioOutputDriver::write_samples(samples).  The device accepts acc1
\* samples of the overflow buffer and, when the second write happens, acc2
\* samples of the new block (m_sink->write returns a whole number of floats
\* between 0 and what it was given).
WriteInputs(frames, acc1, acc2) ==
    LET n == frames * o_channels
        residue == SubSeq(m_outer_buffer, acc1 + 1, Len(m_outer_buffer))
    IN /\ o_submitted + n <= MaxSubmitted
       /\ acc1 \in 0..Len(m_outer_buffer)
       /\ IF HasResidue(residue) THEN acc2 = 0 ELSE acc2 \in 0..n

\* What the call does to the device and to the overflow buffer, and the
\* values of m_dropped and m_outer_buffer_delay it stores under
\* m_time_mutex before it returns.
WriteEffect(frames, acc1, acc2) ==
    LET n == frames * o_channels
        samples == [i \in 1..n |-> o_submitted + i]
        residue == SubSeq(m_outer_buffer, acc1 + 1, Len(m_outer_buffer))
        dev1 == dev_written \o SubSeq(m_outer_buffer, 1, acc1)
        total_samples == Len(residue) + n
    IN IF HasResidue(residue)
       THEN IF ShouldDrop(total_samples, m_drop_samples)
            THEN [dev_written |-> dev1,
                  outer_buffer |-> AfterDrop(residue),
                  drops |-> TRUE,
                  dropped |-> m_dropped
                                + UsecsOfSamples(total_samples, o_rate),
                  delay |-> 0,
                  samples |-> samples,
                  residue |-> residue]
            ELSE [dev_written |-> dev1,
                  outer_buffer |-> residue \o samples,
                  drops |-> FALSE,
                  dropped |-> m_dropped,
                  delay |-> UsecsOfSamples(Len(residue) + n, o_rate),
                  samples |-> samples,
                  residue |-> residue]
       ELSE [dev_written |-> dev1 \o SubSeq(samples, 1, acc2),
             outer_buffer |-> SubSeq(samples, acc2 + 1, n),
             drops |-> FALSE,
             dropped |-> m_dropped,
             delay |-> UsecsOfSamples(n - acc2, o_rate),
             samples |-> samples,
             residue |-> residue]

\* The whole call as one step.
write_samples(frames, acc1, acc2) ==
    /\ o_state = "started"
    /\ WriteInputs(frames, acc1, acc2)
    /\ LET effect == WriteEffect(frames, acc1, acc2) IN
         /\ dev_written' = effect.dev_written
         /\ m_outer_buffer' = effect.outer_buffer
         /\ m_dropped' = effect.dropped
         /\ m_outer_buffer_delay' = effect.delay
         /\ o_samples' = effect.samples
         /\ o_residue' = effect.residue
         /\ o_submitted' = o_submitted + Len(effect.samples)
    /\ o_op' = "write"
    /\ o_time_before' = AudioOutputDriver_time
    /\ o_pre_dev' = dev_written
    /\ o_pre_outer' = m_outer_buffer
    /\ o_pre_dropped' = m_dropped
    /\ UNCHANGED <<o_state, o_channels, o_rate, m_buffer_msecs, m_drop_msecs,
                   m_drop_samples, m_t0, m_buffer_delay, dev_processed,
                   dev_steps>>

NextOut ==
    \/ \E now \in 0..1 : AudioOutputDriver_start(now) /\ UNCHANGED <<qvars, pvars, evars, rvars, fvars, xvars>>
    \/ DeviceProcess /\ UNCHANGED <<qvars, pvars, evars, rvars, fvars, xvars>>
    \/ \E frames \in 1..MaxFrames, acc1, acc2 \in 0..MaxSubmitted :
          write_samples(frames, acc1, acc2) /\ UNCHANGED <<qvars, pvars, evars, rvars, fvars, xvars>>

(***************************************************************************)
(* AudioPipe: the pump thread (run) and the thread that owns the pipe       *)
(***************************************************************************)
\* AudioPipe(source, sink): members as the constructor leaves them before it
\* calls start() on the thread.
AudioPipe(channels, rate) ==
    /\ p_channels = channels
    /\ p_rate = rate
    /\ m_terminated = FALSE
    /\ m_new_source_thread = "null"
    /\ m_startup_done = FALSE
    /\ m_source = "src"
    /\ m_sink = "sink"
    /\ m_sample_buffer = <<>>
    /\ src_state = "new"
    /\ src_thread = "pipe"
    /\ sink_state = "new"
    /\ pump_pc = "unstarted"
    /\ client_pc = "ctor"

\* p_term_mark while m_terminated was never set, and the value it takes when
\* stop() or the destructor sets m_terminated.
NoTermMark == [reads |-> -1, published |-> -1, writes |-> -1]

TermMark == [reads |-> p_nreads, published |-> Len(p_published),
             writes |-> Len(p_sink_writes)]

InitPipeVars(channels, rate) ==
    /\ AudioPipe(channels, rate)
    /\ pump_t = 0
    /\ p_nreads = 0
    /\ p_nstops = 0
    /\ p_starts = <<>>
    /\ p_reads = <<>>
    /\ p_published = <<>>
    /\ p_sink_writes = <<>>
    /\ p_stop = [ret |-> "none", running |-> FALSE, terminated |-> FALSE,
                 returned |-> FALSE]
    /\ p_failed = FALSE
    /\ p_term_mark = NoTermMark

\* QThread::isRunning(): from start() until run() has returned.
isRunning == pump_pc \notin {"unstarted", "finished", "aborted"}

\* QThread::wait() returns once the thread is no longer running.
ThreadExited == pump_pc \in {"finished", "aborted"}

\* An exception that leaves run() ends the whole program (std::terminate):
\* no thread takes a step afterwards.
ProcessAlive == pump_pc # "aborted"

plog == <<p_nreads, p_starts, p_reads, p_published, p_sink_writes>>
pconf == <<p_channels, p_rate>>

\* ---- the constructor, on the caller's thread ----
\* AudioPipe::AudioPipe: start() launches the pump thread.
ctor_start_thread ==
    /\ client_pc = "ctor"
    /\ client_pc' = "ctor_wait"
    /\ pump_pc' = "start_source"
    /\ UNCHANGED <<pconf, p_failed, p_term_mark, m_terminated, m_new_source_thread, m_startup_done,
                   m_source, m_sink, m_sample_buffer, src_state, src_thread,
                   sink_state, pump_t, p_nstops, plog, p_stop>>

\* The predicate of m_startup_notify.wait in the constructor.
StartupPredicate_true(startup_done) == TRUE

StartupPredicate(startup_done) == startup_done

\* AudioPipe::AudioPipe: the wait on m_startup_notify ends, the constructor
\* returns.
ctor_return ==
    /\ client_pc = "ctor_wait"
    /\ StartupPredicate(m_startup_done)
    /\ ProcessAlive
    /\ client_pc' = "idle"
    /\ UNCHANGED <<pconf, p_failed, p_term_mark, m_terminated, m_new_source_thread, m_startup_done,
                   m_source, m_sink, m_sample_buffer, src_state, src_thread,
                   sink_state, pump_pc, pump_t, p_nstops, plog, p_stop>>

\* ---- run(), on the pump thread ----
\* m_source->start(); it throws when the sample format has no converter.
run_start_source(ok) ==
    /\ pump_pc = "start_source"
    /\ IF ok
       THEN /\ src_state' = "started"
            /\ p_starts' = Append(p_starts, "source")
            /\ pump_pc' = "start_sink"
       ELSE /\ pump_pc' = "aborted"
            /\ UNCHANGED <<src_state, p_starts>>
    /\ UNCHANGED <<pconf, p_failed, p_term_mark, m_terminated, m_new_source_thread, m_startup_done,
                   m_source, m_sink, m_sample_buffer, src_thread, sink_state,
                   pump_t, client_pc, p_nreads, p_nstops, p_reads,
                   p_published, p_sink_writes, p_stop>>

\* m_sink->start(); it throws when the output device cannot be opened.
run_start_sink(ok) ==
    /\ pump_pc = "start_sink"
    /\ IF ok
       THEN /\ sink_state' = "started"
            /\ p_starts' = Append(p_starts, "sink")
            /\ pump_pc' = "notify"
       ELSE /\ pump_pc' = "aborted"
            /\ UNCHANGED <<sink_state, p_starts>>
    /\ UNCHANGED <<pconf, p_failed, p_term_mark, m_terminated, m_new_source_thread, m_startup_done,
                   m_source, m_sink, m_sample_buffer, src_state, src_thread,
                   pump_t, client_pc, p_nreads, p_nstops, p_reads,
                   p_published, p_sink_writes, p_stop>>

\* m_startup_done = true; m_startup_notify.notify_all(), under the mutex.
run_notify ==
    /\ pump_pc = "notify"
    /\ m_startup_done' = TRUE
    /\ pump_pc' = "loop"
    /\ UNCHANGED <<pconf, p_failed, p_term_mark, m_terminated, m_new_source_thread, m_source, m_sink,
                   m_sample_buffer, src_state, src_thread, sink_state, pump_t,
                   client_pc, p_nstops, plog, p_stop>>

\* while (!m_terminated)
LoopEnds_never(terminated) == FALSE

LoopEnds(terminated) == terminated

run_loop_test ==
    /\ pump_pc = "loop"
    /\ pump_pc' = IF LoopEnds(m_terminated) THEN "exit" ELSE "read"
    /\ UNCHANGED <<pconf, p_failed, p_term_mark, m_terminated, m_new_source_thread, m_startup_done,
                   m_source, m_sink, m_sample_buffer, src_state, src_thread,
                   sink_state, pump_t, client_pc, p_nstops, plog, p_stop>>

\* m_source->read_samples(m_sample_buffer) returns: failure (the pump throws
\* out of run), an empty block (sleep, continue), or a block of whole frames.
\* Where run() continues after a failed read: the throw leaves run().
AfterReadFailure_retry == "loop"

AfterReadFailure == "aborted"

run_read_fail ==
    /\ pump_pc = "read"
    /\ p_nreads < MaxReads
    /\ p_nreads' = p_nreads + 1
    /\ p_failed' = TRUE
    /\ pump_pc' = AfterReadFailure
    /\ UNCHANGED <<pconf, p_term_mark, m_terminated, m_new_source_thread, m_startup_done,
                   m_source, m_sink, m_sample_buffer, src_state, src_thread,
                   sink_state, pump_t, client_pc, p_nstops, p_starts, p_reads,
                   p_published, p_sink_writes, p_stop>>

\* Where run() continues after an empty block: sleep_for(m_sample_sleep) and
\* continue, to the test of the loop.
AfterEmptyRead_publish == "publish"

AfterEmptyRead == "loop"

run_read_empty ==
    /\ pump_pc = "read"
    /\ p_nreads < MaxReads
    /\ p_nreads' = p_nreads + 1
    /\ m_sample_buffer' = <<>>
    /\ pump_t' = p_nreads + 1
    /\ pump_pc' = AfterEmptyRead
    /\ UNCHANGED <<pconf, p_failed, p_term_mark, m_terminated, m_new_source_thread, m_startup_done,
                   m_source, m_sink, src_state, src_thread, sink_state,
                   client_pc, p_nstops, p_starts, p_reads, p_published,
                   p_sink_writes, p_stop>>

run_read_block(samples) ==
    /\ pump_pc = "read"
    /\ p_nreads < MaxReads
    /\ p_nreads' = p_nreads + 1
    /\ m_sample_buffer' = samples
    /\ pump_t' = p_nreads + 1
    /\ p_reads' = Append(p_reads, [t |-> p_nreads + 1, samples |-> samples])
    /\ pump_pc' = "publish"
    /\ UNCHANGED <<pconf, p_failed, p_term_mark, m_terminated, m_new_source_thread, m_startup_done,
                   m_source, m_sink, src_state, src_thread, sink_state,
                   client_pc, p_nstops, p_starts, p_published, p_sink_writes,
                   p_stop>>

\* AudioPipe::downmix_to_mono(src, dest, channels): dest[i] is the sum of
\* the samples of frame i.
RECURSIVE SumOf(_, _, _)
SumOf(src, from, n) ==
    IF n = 0 THEN 0 ELSE src[from] + SumOf(src, from + 1, n - 1)

\* dest[i] = accum: the accumulated sum is stored as it is.
MonoOf_mean(accum, channels) == accum \div channels

MonoOf(accum, channels) == accum

downmix_to_mono(src, channels) ==
    [i \in 1..(Len(src) \div channels) |->
        MonoOf(SumOf(src, (i - 1) * channels + 1, channels), channels)]

\* The SampleBlock run() builds: mono_samples is filled only when
\* channels > 1, otherwise it stays as make_shared left it, empty.
MakeBlock(t, sample_buffer, channels, rate) ==
    [t |-> t,
     mono_samples |-> IF channels > 1
                      THEN downmix_to_mono(sample_buffer, channels)
                      ELSE <<>>,
     sample_rate |-> rate]

\* emit samples_available(block)
run_publish ==
    /\ pump_pc = "publish"
    /\ p_published' = Append(p_published,
                             MakeBlock(pump_t, m_sample_buffer, p_channels,
                                       p_rate))
    /\ pump_pc' = "write"
    /\ UNCHANGED <<pconf, p_failed, p_term_mark, m_terminated, m_new_source_thread, m_startup_done,
                   m_source, m_sink, m_sample_buffer, src_state, src_thread,
                   sink_state, pump_t, client_pc, p_nreads, p_nstops,
                   p_starts, p_reads, p_sink_writes, p_stop>>

\* What run() hands to m_sink->write_samples.
SinkInput_mono(sample_buffer, channels) ==
    IF channels > 1 THEN downmix_to_mono(sample_buffer, channels)
    ELSE sample_buffer

SinkInput(sample_buffer, channels) == sample_buffer

\* m_sink->write_samples(m_sample_buffer); m_sample_buffer.clear()
run_write ==
    /\ pump_pc = "write"
    /\ p_sink_writes' = Append(p_sink_writes,
                               SinkInput(m_sample_buffer, p_channels))
    /\ m_sample_buffer' = <<>>
    /\ pump_pc' = "loop"
    /\ UNCHANGED <<pconf, p_failed, p_term_mark, m_terminated, m_new_source_thread, m_startup_done,
                   m_source, m_sink, src_state, src_thread, sink_state,
                   pump_t, client_pc, p_nreads, p_nstops, p_starts, p_reads,
                   p_published, p_stop>>

\* Whether run() keeps the source for a new owner after the loop.
KeepsSource_never(new_source_thread) == FALSE

KeepsSource(new_source_thread) == new_source_thread # "null"

\* After the loop: the source is stopped and either moved to the new thread
\* or released; the sink is stopped and released.
run_exit ==
    /\ pump_pc = "exit"
    /\ IF KeepsSource(m_new_source_thread)
       THEN /\ src_state' = "stopped"
            /\ src_thread' = m_new_source_thread
            /\ UNCHANGED m_source
       ELSE /\ src_state' = "destroyed"
            /\ m_source' = "null"
            /\ UNCHANGED src_thread
    /\ sink_state' = "stopped"
    /\ m_sink' = "null"
    /\ pump_pc' = "finished"
    /\ UNCHANGED <<pconf, p_failed, p_term_mark, m_terminated, m_new_source_thread, m_startup_done,
                   m_sample_buffer, pump_t, client_pc, p_nstops, plog, p_stop>>

\* ---- AudioPipe::stop(new_source_thread), on the caller's thread ----
\* The early return of stop().
StopIsNoop(running, terminated) == ~running \/ terminated

stop_call ==
    /\ client_pc = "idle"
    /\ ProcessAlive
    /\ p_nstops < MaxStops
    /\ p_nstops' = p_nstops + 1
    /\ IF StopIsNoop(isRunning, m_terminated)
       THEN /\ p_stop' = [ret |-> "null", running |-> isRunning,
                          terminated |-> m_terminated, returned |-> TRUE]
            /\ UNCHANGED <<m_new_source_thread, m_terminated, client_pc,
                           p_term_mark>>
       ELSE /\ m_new_source_thread' = "caller"
            /\ m_terminated' = TRUE
            /\ p_term_mark' = TermMark
            /\ client_pc' = "stop_wait"
            /\ p_stop' = [ret |-> "none", running |-> isRunning,
                          terminated |-> m_terminated, returned |-> FALSE]
    /\ UNCHANGED <<pconf, p_failed, m_startup_done, m_source, m_sink, m_sample_buffer,
                   src_state, src_thread, sink_state, pump_pc, pump_t, plog>>

\* wait() has returned: return std::move(m_source)
stop_return ==
    /\ client_pc = "stop_wait"
    /\ ThreadExited
    /\ ProcessAlive
    /\ p_stop' = [p_stop EXCEPT !.ret = m_source, !.returned = TRUE]
    /\ m_source' = "null"
    /\ client_pc' = "idle"
    /\ UNCHANGED <<pconf, p_failed, p_term_mark, m_terminated, m_new_source_thread, m_startup_done,
                   m_sink, m_sample_buffer, src_state, src_thread, sink_state,
                   pump_pc, pump_t, p_nstops, plog>>

\* ---- AudioPipe::~AudioPipe(), on the caller's thread ----
dtor_call ==
    /\ client_pc = "idle"
    /\ ProcessAlive
    /\ IF ~m_terminated
       THEN /\ m_terminated' = TRUE
            /\ p_term_mark' = TermMark
            /\ client_pc' = "dtor_wait"
       ELSE /\ client_pc' = "destroyed"
            /\ UNCHANGED <<m_terminated, p_term_mark>>
    /\ UNCHANGED <<pconf, p_failed, m_new_source_thread, m_startup_done, m_source,
                   m_sink, m_sample_buffer, src_state, src_thread, sink_state,
                   pump_pc, pump_t, p_nstops, plog, p_stop>>

dtor_return ==
    /\ client_pc = "dtor_wait"
    /\ ThreadExited
    /\ ProcessAlive
    /\ client_pc' = "destroyed"
    /\ UNCHANGED <<pconf, p_failed, p_term_mark, m_terminated, m_new_source_thread, m_startup_done,
                   m_source, m_sink, m_sample_buffer, src_state, src_thread,
                   sink_state, pump_pc, pump_t, p_nstops, plog, p_stop>>

\* The blocks a read can return: whole frames of p_channels samples.
ReadBlocks ==
    UNION {[1..(frames * p_channels) -> SampleValues] : frames \in 1..MaxFrames}

NextPipe ==
    \/ ctor_start_thread /\ UNCHANGED <<qvars, ovars, evars, rvars, fvars, xvars>>
    \/ ctor_return /\ UNCHANGED <<qvars, ovars, evars, rvars, fvars, xvars>>
    \/ \E ok \in BOOLEAN : run_start_source(ok) /\ UNCHANGED <<qvars, ovars, evars, rvars, fvars, xvars>>
    \/ \E ok \in BOOLEAN : run_start_sink(ok) /\ UNCHANGED <<qvars, ovars, evars, rvars, fvars, xvars>>
    \/ run_notify /\ UNCHANGED <<qvars, ovars, evars, rvars, fvars, xvars>>
    \/ run_loop_test /\ UNCHANGED <<qvars, ovars, evars, rvars, fvars, xvars>>
    \/ run_read_fail /\ UNCHANGED <<qvars, ovars, evars, rvars, fvars, xvars>>
    \/ run_read_empty /\ UNCHANGED <<qvars, ovars, evars, rvars, fvars, xvars>>
    \/ \E samples \in ReadBlocks :
          run_read_block(samples) /\ UNCHANGED <<qvars, ovars, evars, rvars, fvars, xvars>>
    \/ run_publish /\ UNCHANGED <<qvars, ovars, evars, rvars, fvars, xvars>>
    \/ run_write /\ UNCHANGED <<qvars, ovars, evars, rvars, fvars, xvars>>
    \/ run_exit /\ UNCHANGED <<qvars, ovars, evars, rvars, fvars, xvars>>
    \/ stop_call /\ UNCHANGED <<qvars, ovars, evars, rvars, fvars, xvars>>
    \/ stop_return /\ UNCHANGED <<qvars, ovars, evars, rvars, fvars, xvars>>
    \/ dtor_call /\ UNCHANGED <<qvars, ovars, evars, rvars, fvars, xvars>>
    \/ dtor_return /\ UNCHANGED <<qvars, ovars, evars, rvars, fvars, xvars>>

(***************************************************************************)
(* Engine: the owner of the source latch and of the AudioPipe              *)
(***************************************************************************)
\* Engine::Engine(): no source, no pipe, no output device.  The pipe
\* variables describe no AudioPipe object until the first start().
InitEngineVars ==
    /\ m_source_latch = "null"
    /\ m_audio_pipe = "null"
    /\ m_output_device_info = "null"
    /\ e_pc = "idle"
    /\ e_op = [call |-> "none", err |-> "none"]
    /\ e_calls = 0
    /\ e_pipes = 0

\* Engine::is_running()
is_running_never(audio_pipe) == FALSE

is_running(audio_pipe) == audio_pipe # "null"

\* m_output_device_info.isFormatSupported(fmt) in rebuild_pipe
isFormatSupported(device) == device # "unsupported"

\* A call that throws: nothing but the record of the call changes.
Engine_throw(call, err) ==
    /\ e_op' = [call |-> call, err |-> err]
    /\ UNCHANGED <<m_source_latch, m_audio_pipe, m_output_device_info, e_pc,
                   e_pipes, pvars>>

\* std::move(m_source_latch) into the AudioPipe: the latch is left empty.
LatchAfterMove_copy(latch) == latch

LatchAfterMove(latch) == "null"

\* Engine::rebuild_pipe up to the start of the AudioPipe constructor: the
\* sink is made, the latch is moved into the members of a new AudioPipe.
rebuild_pipe ==
    /\ m_source' = m_source_latch
    /\ m_source_latch' = LatchAfterMove(m_source_latch)
    /\ m_sink' = "sink"
    /\ sink_state' = "new"
    /\ src_thread' = "pipe"
    /\ m_terminated' = FALSE
    /\ m_new_source_thread' = "null"
    /\ m_startup_done' = FALSE
    /\ m_sample_buffer' = <<>>
    /\ pump_pc' = "unstarted"
    /\ pump_t' = 0
    /\ client_pc' = "ctor"
    /\ p_starts' = <<>>
    /\ p_reads' = <<>>
    /\ p_published' = <<>>
    /\ p_sink_writes' = <<>>
    /\ p_stop' = [ret |-> "none", running |-> FALSE, terminated |-> FALSE,
                  returned |-> FALSE]
    /\ p_failed' = FALSE
    /\ p_term_mark' = NoTermMark
    /\ e_pipes' = e_pipes + 1
    /\ e_pc' = "starting"
    /\ UNCHANGED <<pconf, src_state, p_nreads, p_nstops, m_audio_pipe,
                   m_output_device_info>>

\* Engine::start()
Engine_start ==
    /\ e_pc = "idle"
    /\ ProcessAlive
    /\ e_calls < MaxCalls
    /\ e_calls' = e_calls + 1
    /\ IF is_running(m_audio_pipe)
       THEN Engine_throw("start", "already running")
       ELSE IF m_source_latch = "null"
       THEN Engine_throw("start", "no source defined")
       ELSE IF m_output_device_info # "null"
               /\ ~isFormatSupported(m_output_device_info)
       THEN Engine_throw("start", "format not supported by sink")
       ELSE /\ e_op' = [call |-> "start", err |-> "none"]
            /\ rebuild_pipe

\* The AudioPipe constructor has returned: m_audio_pipe takes the new pipe.
Engine_start_return ==
    /\ e_pc = "starting"
    /\ ctor_return
    /\ m_audio_pipe' = "pipe"
    /\ e_pc' = "idle"
    /\ UNCHANGED <<m_source_latch, m_output_device_info, e_op, e_calls,
                   e_pipes>>

\* Engine::stop(): the throw, or the call of m_audio_pipe->stop(*thread()).
Engine_stop ==
    /\ e_pc = "idle"
    /\ ProcessAlive
    /\ e_calls < MaxCalls
    /\ e_calls' = e_calls + 1
    /\ IF ~is_running(m_audio_pipe)
       THEN Engine_throw("stop", "already stopped")
       ELSE /\ stop_call
            /\ e_op' = [call |-> "stop", err |-> "none"]
            /\ e_pc' = IF client_pc' = "idle" THEN "stop_returned"
                       ELSE "stopping"
            /\ UNCHANGED <<m_source_latch, m_audio_pipe,
                           m_output_device_info, e_pipes>>

\* m_audio_pipe->stop has waited for the pump thread and returns.
Engine_stop_wait ==
    /\ e_pc = "stopping"
    /\ stop_return
    /\ e_pc' = "stop_returned"
    /\ UNCHANGED <<m_source_latch, m_audio_pipe, m_output_device_info, e_op,
                   e_calls, e_pipes>>

\* What Engine::stop stores in m_source_latch.
LatchAfterStop_lost(returned) == "null"

LatchAfterStop(returned) == returned

\* m_source_latch = <returned source>; m_audio_pipe = nullptr.  The pipe is
\* destroyed; m_terminated is set by then, so ~AudioPipe does not wait.
Engine_stop_return ==
    /\ e_pc = "stop_returned"
    /\ m_source_latch' = LatchAfterStop(p_stop.ret)
    /\ m_audio_pipe' = "null"
    /\ dtor_call
    /\ e_pc' = "idle"
    /\ UNCHANGED <<m_output_device_info, e_op, e_calls, e_pipes>>

\* Engine::set_source(source)
Engine_set_source(source) ==
    /\ e_pc = "idle"
    /\ ProcessAlive
    /\ e_calls < MaxCalls
    /\ e_calls' = e_calls + 1
    /\ IF is_running(m_audio_pipe)
       THEN Engine_throw("set_source", "already running")
       ELSE /\ m_source_latch' = source
            /\ src_state' = "new"
            /\ src_thread' = "caller"
            /\ e_op' = [call |-> "set_source", err |-> "none"]
            /\ UNCHANGED <<m_audio_pipe, m_output_device_info, e_pc, e_pipes,
                           pconf, m_terminated, m_new_source_thread,
                           m_startup_done, m_source, m_sink, m_sample_buffer,
                           sink_state, pump_pc, pump_t, client_pc, p_nstops,
                           plog, p_stop, p_failed, p_term_mark>>

\* Engine::set_output_device(device)
Engine_set_output_device(device) ==
    /\ e_pc = "idle"
    /\ ProcessAlive
    /\ e_calls < MaxCalls
    /\ e_calls' = e_calls + 1
    /\ IF is_running(m_audio_pipe)
       THEN Engine_throw("set_output_device", "already running")
       ELSE /\ m_output_device_info' = device
            /\ e_op' = [call |-> "set_output_device", err |-> "none"]
            /\ UNCHANGED <<m_source_latch, m_audio_pipe, e_pc, e_pipes,
                           pvars>>

\* The pump thread and the constructor run as in AudioPipe; stop() and the
\* destructor of the pipe are reached through the Engine only.
NextEngine ==
    \/ Engine_start /\ UNCHANGED <<qvars, ovars, rvars, fvars, xvars>>
    \/ Engine_start_return /\ UNCHANGED <<qvars, ovars, rvars, fvars, xvars>>
    \/ Engine_stop /\ UNCHANGED <<qvars, ovars, rvars, fvars, xvars>>
    \/ Engine_stop_wait /\ UNCHANGED <<qvars, ovars, rvars, fvars, xvars>>
    \/ Engine_stop_return /\ UNCHANGED <<qvars, ovars, rvars, fvars, xvars>>
    \/ \E source \in {"src", "null"} :
          Engine_set_source(source) /\ UNCHANGED <<qvars, ovars, rvars, fvars, xvars>>
    \/ \E device \in {"null", "device", "unsupported"} :
          Engine_set_output_device(device) /\ UNCHANGED <<qvars, ovars, rvars, fvars, xvars>>
    \/ ctor_start_thread /\ UNCHANGED <<qvars, ovars, evars, rvars, fvars, xvars>>
    \/ \E ok \in BOOLEAN : run_start_source(ok) /\ UNCHANGED <<qvars, ovars, evars, rvars, fvars, xvars>>
    \/ \E ok \in BOOLEAN : run_start_sink(ok) /\ UNCHANGED <<qvars, ovars, evars, rvars, fvars, xvars>>
    \/ run_notify /\ UNCHANGED <<qvars, ovars, evars, rvars, fvars, xvars>>
    \/ run_loop_test /\ UNCHANGED <<qvars, ovars, evars, rvars, fvars, xvars>>
    \/ run_read_fail /\ UNCHANGED <<qvars, ovars, evars, rvars, fvars, xvars>>
    \/ run_read_empty /\ UNCHANGED <<qvars, ovars, evars, rvars, fvars, xvars>>
    \/ \E samples \in ReadBlocks :
          run_read_block(samples) /\ UNCHANGED <<qvars, ovars, evars, rvars, fvars, xvars>>
    \/ run_publish /\ UNCHANGED <<qvars, ovars, evars, rvars, fvars, xvars>>
    \/ run_write /\ UNCHANGED <<qvars, ovars, evars, rvars, fvars, xvars>>
    \/ run_exit /\ UNCHANGED <<qvars, ovars, evars, rvars, fvars, xvars>>

(***************************************************************************)
(* RMSProcessor                                                            *)
(***************************************************************************)
\* An RMS value is kept as its exact mean square num/den; the square root
\* and the rounding to float are non-decreasing, so order, maximum and
\* equality of exact values carry over to the floats of the code.
RmsZero == [num |-> 0, den |-> 1]

RmsLess(a, b) == a.num * b.den < b.num * a.den

RmsEq(a, b) == a.num * b.den = b.num * a.den

\* std::max(a, b): b when a < b, otherwise a
RmsMax(a, b) == IF RmsLess(a, b) THEN b ELSE a

\* RMSProcessor::RMSProcessor: m_backlog{0}, m_backlog_index(0); the buffer
\* is empty, m_sample_rate and m_t0 are not read before the first call
\* assigns them.
InitRMSVars ==
    /\ rms_t0 = 0
    /\ rms_sample_rate = 0
    /\ rms_sample_buffer = <<>>
    /\ m_backlog = [i \in 1..BacklogSize |-> RmsZero]
    /\ m_backlog_index = 0
    /\ rms_pc = "idle"
    /\ rms_processed = 0
    /\ rms_in = [t |-> 0, sample_rate |-> 0, mono_samples |-> <<>>]
    /\ rms_out = <<>>
    /\ rms_pre_buffer = <<>>
    /\ rms_changed = FALSE
    /\ rms_run = [first_id |-> 0, t_first |-> 0, total |-> 0, emitted |-> 0,
                  consistent |-> TRUE]
    /\ rms_prev_emit = -1
    /\ rms_hist = <<>>
    /\ rms_calls = 0
    /\ rms_nsamples = 0
    /\ rms_nloud = 0
    /\ rms_nstale = 0
    /\ rms_nchanges = 0

rms_budgets == <<rms_nloud, rms_nstale, rms_nchanges>>

\* The test at the head of process_samples: start over with the new block.
ResyncNeeded_empty(buffer, rate, new_rate) == buffer = <<>>

ResyncNeeded(buffer, rate, new_rate) == buffer = <<>> \/ rate # new_rate

\* const uint64_t per_block = m_sample_rate / 10
PerBlock_fifth(rate) == rate \div 5

PerBlock(rate) == rate \div 10

\* The loop test: while (m_sample_buffer.size() >= per_block)
WindowReady_gt(size, per_block) == size > per_block

WindowReady(size, per_block) == size >= per_block

\* rms: the mean of the squares of the first per_block samples
RECURSIVE SumSquares(_, _)
SumSquares(buffer, n) ==
    IF n = 0 THEN 0
    ELSE buffer[n].v * buffer[n].v + SumSquares(buffer, n - 1)

MeanSquare(buffer, per_block) ==
    [num |-> SumSquares(buffer, per_block), den |-> per_block]

\* std::chrono::microseconds(processed * 1000000 / m_sample_rate)
ProcessedUsecs_zero(processed, rate) == 0

ProcessedUsecs(processed, rate) == (processed * 1000000) \div rate

\* m_backlog_index = (m_backlog_index + 1) % m_backlog.size()
NextBacklogIndex_stuck(index) == index

NextBacklogIndex(index) == (index + 1) % BacklogSize

\* RMSProcessor::get_recent_peak: the maximum over all slots, from 0
RECURSIVE PeakOver(_, _)
PeakOver(backlog, n) ==
    IF n = 0 THEN RmsZero
    ELSE RmsMax(PeakOver(backlog, n - 1), backlog[n])

get_recent_peak(backlog) == PeakOver(backlog, Len(backlog))

\* buffer without its first n elements
DropFirst(buffer, n) == SubSeq(buffer, n + 1, Len(buffer))

\* the last n elements of s
LastN(s, n) == IF Len(s) <= n THEN s ELSE SubSeq(s, Len(s) - n + 1, Len(s))

\* the time right after the last sample of a block stamped with the capture
\* time of its first sample
CaptureEnd(block) ==
    IF block.sample_rate = 0 THEN block.t
    ELSE block.t + (Len(block.mono_samples) * 1000000) \div block.sample_rate

\* RMSProcessor::process_samples(input_block) up to the while loop: the
\* block replaces the buffer or is appended to it.
process_samples(data) ==
    LET resync == ResyncNeeded(rms_sample_buffer, rms_sample_rate,
                                data.sample_rate)
        new_run == rms_calls = 0 \/ rms_in.sample_rate # data.sample_rate
        n == Len(data.mono_samples)
    IN /\ rms_pc = "idle"
       /\ IF resync
          THEN /\ rms_sample_rate' = data.sample_rate
               /\ rms_sample_buffer' = data.mono_samples
               /\ rms_t0' = data.t
          ELSE /\ rms_sample_buffer' = rms_sample_buffer \o data.mono_samples
               /\ UNCHANGED <<rms_sample_rate, rms_t0>>
       /\ rms_processed' = 0
       /\ rms_pc' = "loop"
       /\ rms_in' = data
       /\ rms_out' = <<>>
       /\ rms_pre_buffer' = rms_sample_buffer
       /\ rms_changed' = (rms_calls > 0
                            /\ rms_in.sample_rate # data.sample_rate)
       /\ rms_run' =
            IF new_run
            THEN [first_id |-> rms_nsamples, t_first |-> data.t,
                  total |-> n, emitted |-> 0, consistent |-> TRUE]
            ELSE [rms_run EXCEPT
                    !.total = @ + n,
                    !.consistent = @ /\ data.t = CaptureEnd(rms_in)]
       /\ rms_prev_emit' =
            IF new_run THEN -1
            ELSE IF rms_out # <<>> THEN rms_out[Len(rms_out)].t
            ELSE rms_prev_emit
       /\ rms_calls' = rms_calls + 1
       /\ rms_nsamples' = rms_nsamples + n
       /\ UNCHANGED <<m_backlog, m_backlog_index, rms_hist>>

\* One pass through the body of the while loop: an RMSBlock is emitted for
\* the first per_block samples, which are erased.
process_samples_window ==
    LET per_block == PerBlock(rms_sample_rate)
        rms == MeanSquare(rms_sample_buffer, per_block)
        backlog2 == [m_backlog EXCEPT ![m_backlog_index + 1] = rms]
    IN /\ rms_pc = "loop"
       /\ WindowReady(Len(rms_sample_buffer), per_block)
       /\ m_backlog' = backlog2
       /\ m_backlog_index' = NextBacklogIndex(m_backlog_index)
       /\ rms_out' = Append(rms_out,
                        [t |-> rms_t0 + ProcessedUsecs(rms_processed,
                                                       rms_sample_rate),
                         curr |-> rms,
                         recent_peak |-> get_recent_peak(backlog2),
                         window |-> SubSeq(rms_sample_buffer, 1, per_block)])
       /\ rms_sample_buffer' = DropFirst(rms_sample_buffer, per_block)
       /\ rms_processed' = rms_processed + per_block
       /\ rms_run' = [rms_run EXCEPT !.emitted = @ + 1]
       /\ rms_hist' = LastN(Append(rms_hist, rms), BacklogSize)
       /\ UNCHANGED <<rms_t0, rms_sample_rate, rms_pc, rms_in,
                      rms_pre_buffer, rms_changed, rms_prev_emit, rms_calls,
                      rms_nsamples, rms_budgets>>

\* The loop test fails: m_t0 += microseconds(processed * 1000000 /
\* m_sample_rate), and the slot returns.
process_samples_return ==
    /\ rms_pc = "loop"
    /\ ~WindowReady(Len(rms_sample_buffer), PerBlock(rms_sample_rate))
    /\ rms_t0' = rms_t0 + ProcessedUsecs(rms_processed, rms_sample_rate)
    /\ rms_pc' = "idle"
    /\ UNCHANGED <<rms_sample_rate, rms_sample_buffer, m_backlog,
                   m_backlog_index, rms_processed, rms_in, rms_out,
                   rms_pre_buffer, rms_changed, rms_run, rms_prev_emit,
                   rms_hist, rms_calls, rms_nsamples, rms_budgets>>

\* The blocks the model hands to process_samples: n samples, all zero or
\* with a first sample of 1; the time is the capture time that follows the
\* previous block, or the previous block's time once more.
RmsBlock(t, rate, n, loud) ==
    [t |-> t, sample_rate |-> rate,
     mono_samples |-> [i \in 1..n |->
                         [id |-> rms_nsamples + i - 1, rate |-> rate,
                          v |-> IF loud /\ i = 1 THEN 1 ELSE 0]]]

RmsInput(rate, n, loud, stale) ==
    /\ rms_calls < MaxRmsCalls
    /\ loud => rms_nloud < MaxLoud
    /\ stale => (rms_calls > 0 /\ rms_in.mono_samples # <<>>
                   /\ rms_nstale < MaxStale)
    /\ (rms_calls > 0 /\ rate # rms_in.sample_rate)
          => rms_nchanges < MaxRateChanges
    /\ rms_nloud' = rms_nloud + (IF loud THEN 1 ELSE 0)
    /\ rms_nstale' = rms_nstale + (IF stale THEN 1 ELSE 0)
    /\ rms_nchanges' = rms_nchanges +
          (IF rms_calls > 0 /\ rate # rms_in.sample_rate THEN 1 ELSE 0)
    /\ process_samples(RmsBlock(IF stale THEN rms_in.t
                                ELSE CaptureEnd(rms_in), rate, n, loud))

NextRMS ==
    \/ \E rate \in RmsRates, n \in RmsBlockLens, loud, stale \in BOOLEAN :
          RmsInput(rate, n, loud, stale) /\ UNCHANGED <<qvars, ovars, pvars, evars, fvars, xvars>>
    \/ process_samples_window /\ UNCHANGED <<qvars, ovars, pvars, evars, fvars, xvars>>
    \/ process_samples_return /\ UNCHANGED <<qvars, ovars, pvars, evars, fvars, xvars>>

\* The processor with the sample rates a SampleBlock may carry, those below
\* 10 Hz among them; a call is followed for MaxPasses passes of its loop.
process_samples_pass ==
    /\ Len(rms_out) < MaxPasses
    /\ process_samples_window

NextRMSAny ==
    \/ \E rate \in AnyRmsRates, n \in 0..MaxAnyLen, loud, stale \in BOOLEAN :
          RmsInput(rate, n, loud, stale) /\ UNCHANGED <<qvars, ovars, pvars, evars, fvars, xvars>>
    \/ process_samples_pass /\ UNCHANGED <<qvars, ovars, pvars, evars, fvars, xvars>>
    \/ process_samples_return /\ UNCHANGED <<qvars, ovars, pvars, evars, fvars, xvars>>

(***************************************************************************)
(* FFTProcessor                                                            *)
(***************************************************************************)
\* FFTProcessor::FFTProcessor(engine, size, period_msec): m_sample_rate(0),
\* m_shift_remaining(0), an empty m_in_buffer; m_t is not read before the
\* first call assigns it.
InitFFTVars(size, period_msec) ==
    /\ m_size = size
    /\ m_period_msec = period_msec
    /\ fft_t = 0
    /\ fft_sample_rate = 0
    /\ m_shift_remaining = 0
    /\ m_in_buffer = <<>>
    /\ fft_pc = "idle"
    /\ fft_in = [t |-> 0, sample_rate |-> 0, mono_samples |-> <<>>]
    /\ fft_out = <<>>
    /\ fft_pre_buffer = <<>>
    /\ fft_pre_shift = 0
    /\ fft_changed = FALSE
    /\ fft_change = [t |-> 0, id |-> 0, n |-> 0, emitted |-> 0]
    /\ fft_prev_start = -1
    /\ fft_calls = 0
    /\ fft_nsamples = 0
    /\ fft_nlate = 0
    /\ fft_nchanges = 0

fft_config == <<m_size, m_period_msec>>

fft_budgets == <<fft_nlate, fft_nchanges>>

\* m_in_buffer.clear() of the rate change branch
ClearedBuffer_kept(buffer) == buffer

ClearedBuffer(buffer) == <<>>

\* std::chrono::microseconds(n * 1000000 / m_sample_rate)
UsecsOf(n, rate) == (n * 1000000) \div rate

\* m_shift_remaining = shift - m_in_buffer.size(), when the shift reaches
\* past the buffered samples
ShiftRemainder_none(shift, size) == 0

ShiftRemainder(shift, size) == shift - size

\* m_t = data.t, of the rate change and of the resync on an empty buffer
ResyncTime_kept(data_t, t) == t

ResyncTime(data_t, t) == data_t

\* m_shift_remaining -= data.mono_samples.size(), of a block skipped whole
RemainderAfterSkip_zero(shift_remaining, n) == 0

RemainderAfterSkip(shift_remaining, n) == shift_remaining - n

\* m_in_buffer.clear(), when the shift reaches past the buffered samples
AfterLastWindow_kept(buffer) == buffer

AfterLastWindow(buffer) == <<>>

\* const uint32_t shift = m_period_msec * m_sample_rate / 1000
Shift(period_msec, rate) == (period_msec * rate) \div 1000

\* FFTProcessor::process_samples(input_block) up to the while loop, or to
\* the return of a block that is skipped as a whole.
FFT_process_samples(data) ==
    LET rate_differs == fft_sample_rate # data.sample_rate
        buffer1 == IF rate_differs THEN ClearedBuffer(m_in_buffer)
                   ELSE m_in_buffer
        shift1 == IF rate_differs THEN 0 ELSE m_shift_remaining
        t1 == IF rate_differs \/ buffer1 = <<>>
              THEN ResyncTime(data.t, fft_t)
              ELSE fft_t
        n == Len(data.mono_samples)
        new_rate == fft_calls = 0 \/ fft_in.sample_rate # data.sample_rate
    IN /\ fft_pc = "idle"
       /\ fft_sample_rate' = data.sample_rate
       /\ IF shift1 > 0 /\ shift1 >= n
          THEN /\ m_shift_remaining' = RemainderAfterSkip(shift1, n)
               /\ fft_t' = t1 + UsecsOf(n, data.sample_rate)
               /\ m_in_buffer' = buffer1
               /\ fft_pc' = "idle"
          ELSE /\ m_in_buffer' = buffer1 \o DropFirst(data.mono_samples,
                                                      shift1)
               /\ fft_t' = t1 + UsecsOf(shift1, data.sample_rate)
               /\ m_shift_remaining' = 0
               /\ fft_pc' = "loop"
       /\ fft_in' = data
       /\ fft_out' = <<>>
       /\ fft_pre_buffer' = m_in_buffer
       /\ fft_pre_shift' = m_shift_remaining
       /\ fft_changed' = (fft_calls > 0
                            /\ fft_in.sample_rate # data.sample_rate)
       /\ fft_change' = IF new_rate
                        THEN [t |-> data.t, id |-> fft_nsamples, n |-> n,
                              emitted |-> 0]
                        ELSE fft_change
       /\ fft_prev_start' =
            IF new_rate THEN -1
            ELSE IF fft_out # <<>>
                 THEN fft_out[Len(fft_out)].window[1].id
            ELSE fft_prev_start
       /\ fft_calls' = fft_calls + 1
       /\ fft_nsamples' = fft_nsamples + n
       /\ UNCHANGED fft_config

\* One pass through the body of the while loop: a RealFFTBlock is emitted
\* for the first m_size samples; then either the whole buffer is dropped and
\* the rest of the shift is left for the blocks to come (the slot returns),
\* or shift samples are erased.
FFT_process_samples_window ==
    LET shift == Shift(m_period_msec, fft_sample_rate)
        size == Len(m_in_buffer)
    IN /\ fft_pc = "loop"
       /\ size >= m_size
       /\ fft_out' = Append(fft_out,
                        [t |-> fft_t,
                         fmax |-> [num |-> fft_sample_rate, den |-> 2],
                         window |-> SubSeq(m_in_buffer, 1, m_size)])
       /\ fft_change' = [fft_change EXCEPT !.emitted = @ + 1]
       /\ IF shift >= size
          THEN /\ m_shift_remaining' = ShiftRemainder(shift, size)
               /\ fft_t' = fft_t + UsecsOf(size, fft_sample_rate)
               /\ m_in_buffer' = AfterLastWindow(m_in_buffer)
               /\ fft_pc' = "idle"
          ELSE /\ m_in_buffer' = DropFirst(m_in_buffer, shift)
               /\ fft_t' = fft_t + UsecsOf(shift, fft_sample_rate)
               /\ UNCHANGED <<m_shift_remaining, fft_pc>>
       /\ UNCHANGED <<fft_config, fft_sample_rate, fft_in, fft_pre_buffer,
                      fft_pre_shift, fft_changed, fft_prev_start, fft_calls,
                      fft_nsamples, fft_budgets>>

\* The loop test fails, the slot returns.
FFT_process_samples_return ==
    /\ fft_pc = "loop"
    /\ Len(m_in_buffer) < m_size
    /\ fft_pc' = "idle"
    /\ UNCHANGED <<fft_config, fft_t, fft_sample_rate, m_shift_remaining,
                   m_in_buffer, fft_in, fft_out, fft_pre_buffer,
                   fft_pre_shift, fft_changed, fft_change, fft_prev_start,
                   fft_calls, fft_nsamples, fft_budgets>>

\* The blocks the model hands to process_samples: n samples; the time is the
\* capture time that follows the previous block, or FftGapUsecs later.
FftBlock(t, rate, n) ==
    [t |-> t, sample_rate |-> rate,
     mono_samples |-> [i \in 1..n |->
                         [id |-> fft_nsamples + i - 1, rate |-> rate]]]

FftInput(rate, n, late) ==
    /\ fft_calls < MaxFftCalls
    /\ late => fft_nlate < MaxLate
    /\ (fft_calls > 0 /\ rate # fft_in.sample_rate)
          => fft_nchanges < MaxRateChanges
    /\ fft_nlate' = fft_nlate + (IF late THEN 1 ELSE 0)
    /\ fft_nchanges' = fft_nchanges +
          (IF fft_calls > 0 /\ rate # fft_in.sample_rate THEN 1 ELSE 0)
    /\ FFT_process_samples(FftBlock(CaptureEnd(fft_in)
                                      + (IF late THEN FftGapUsecs ELSE 0),
                                    rate, n))

NextFFT ==
    \/ \E rate \in FftRates, n \in 0..MaxFftLen, late \in BOOLEAN :
          FftInput(rate, n, late) /\ UNCHANGED <<qvars, ovars, pvars, evars, rvars, xvars>>
    \/ FFT_process_samples_window /\ UNCHANGED <<qvars, ovars, pvars, evars, rvars, xvars>>
    \/ FFT_process_samples_return /\ UNCHANGED <<qvars, ovars, pvars, evars, rvars, xvars>>

\* The processor with the periods the constructor accepts, 0 among them; a
\* call is followed for MaxPasses passes of its loop.
FFT_process_samples_pass ==
    /\ Len(fft_out) < MaxPasses
    /\ FFT_process_samples_window

NextFFTAny ==
    \/ \E rate \in FftRates, n \in 0..MaxFftLen, late \in BOOLEAN :
          FftInput(rate, n, late) /\ UNCHANGED <<qvars, ovars, pvars, evars, rvars, xvars>>
    \/ FFT_process_samples_pass /\ UNCHANGED <<qvars, ovars, pvars, evars, rvars, xvars>>
    \/ FFT_process_samples_return /\ UNCHANGED <<qvars, ovars, pvars, evars, rvars, xvars>>

(***************************************************************************)
(* AudioInputSource: the choice of the sample converter and the conversion *)
(* of integer samples to float                                             *)
(***************************************************************************)
\* An integer is kept as a sign and a magnitude of two limbs, hi * 65536 + lo
\* with 0 <= lo < 65536, so that the limits of the 32 bit types and the
\* float values 2^31 and 2^32 stay within the numbers the checker handles.
Limbs(hi, lo) == [hi |-> hi + (lo \div LimbBase), lo |-> lo % LimbBase]

LimbAdd(a, b) == Limbs(a.hi + b.hi, a.lo + b.lo)

LimbSub(a, b) == Limbs(a.hi - b.hi, a.lo - b.lo)

LimbLeq(a, b) == a.hi < b.hi \/ (a.hi = b.hi /\ a.lo <= b.lo)

IntOf(neg, hi, lo) ==
    [neg |-> neg /\ Limbs(hi, lo) # Limbs(0, 0), mag |-> Limbs(hi, lo)]

\* value + k for a small k >= 0, and value - k
PlusSmall(v, k) ==
    IF ~v.neg THEN [neg |-> FALSE, mag |-> LimbAdd(v.mag, Limbs(0, k))]
    ELSE IF LimbLeq(Limbs(0, k), v.mag)
    THEN LET m == LimbSub(v.mag, Limbs(0, k)) IN IntOf(TRUE, m.hi, m.lo)
    ELSE LET m == LimbSub(Limbs(0, k), v.mag) IN IntOf(FALSE, m.hi, m.lo)

MinusSmall(v, k) ==
    LET w == PlusSmall([neg |-> ~v.neg /\ v.mag # Limbs(0, 0), mag |-> v.mag],
                       k)
    IN  IntOf(~w.neg, w.mag.hi, w.mag.lo)

\* The types IntToFloatConverter is instantiated with.
IntTypes == {"int16_t", "int32_t", "uint16_t", "uint32_t"}

\* std::numeric_limits<int_t>::max() and ::min()
numeric_limits_max(int_t) ==
    CASE int_t = "int16_t"  -> IntOf(FALSE, 0, 32767)
      [] int_t = "uint16_t" -> IntOf(FALSE, 0, 65535)
      [] int_t = "int32_t"  -> IntOf(FALSE, 32767, 65535)
      [] int_t = "uint32_t" -> IntOf(FALSE, 65535, 65535)

numeric_limits_min(int_t) ==
    CASE int_t = "int16_t"  -> IntOf(TRUE, 0, 32768)
      [] int_t = "int32_t"  -> IntOf(TRUE, 32768, 0)
      [] OTHER              -> IntOf(FALSE, 0, 0)

RECURSIVE Pow2(_)
Pow2(k) == IF k = 0 THEN 1 ELSE 2 * Pow2(k - 1)

\* the number of bits of a magnitude
BitLength16(x) ==
    CHOOSE n \in 0..18 : x < Pow2(n) /\ (n = 0 \/ x >= Pow2(n - 1))

BitLength(m) ==
    IF m.hi > 0 THEN 16 + BitLength16(m.hi) ELSE BitLength16(m.lo)

\* Round to nearest, ties to even: whether the kept digits are incremented,
\* given the dropped digits rem, half a unit of the kept digits, and
\* whether non-zero digits lie behind rem.
RoundsUp(kept, rem, half, sticky) ==
    \/ rem > half
    \/ rem = half /\ (sticky \/ kept % 2 = 1)

\* (float)x for a magnitude x: the nearest number with MantissaBits
\* significant bits.
ToFloatMag(m) ==
    LET s == BitLength(m) - MantissaBits IN
    IF s <= 0 THEN m
    ELSE LET unit == Pow2(s)
             kept == m.lo \div unit
             rem  == m.lo % unit
         IN  Limbs(m.hi,
                   (kept + (IF RoundsUp(kept, rem, unit \div 2, FALSE)
                            THEN 1 ELSE 0)) * unit)

ToFloat(v) == [neg |-> v.neg, mag |-> ToFloatMag(v.mag)]

\* a - b in float for b <= 0 and b <= a, as in (float)value - (float)min:
\* the exact difference, rounded.
FloatSub(a, b) ==
    ToFloatMag(IF a.neg THEN LimbSub(b.mag, a.mag) ELSE LimbAdd(a.mag, b.mag))

\* sample_converter<int_t>::range
range(int_t) ==
    FloatSub(ToFloat(numeric_limits_max(int_t)),
             ToFloat(numeric_limits_min(int_t)))

\* A float x >= 0 as mantissa and exponent: x = m * 2^x with
\* 2^23 <= m < 2^24, or m = 0.
Normalised(f) ==
    LET s == BitLength(f) - MantissaBits IN
    IF f = Limbs(0, 0) THEN [m |-> 0, x |-> 0]
    ELSE IF s >= 0
    THEN [m |-> f.hi * Pow2(16 - s) + (f.lo \div Pow2(s)), x |-> s]
    ELSE [m |-> (f.hi * LimbBase + f.lo) * Pow2(-s), x |-> s]

\* One step of the long division: seven more bits of the quotient.
DivStep(st, d) ==
    LET t == st.r * 128 IN [q |-> st.q * 128 + (t \div d), r |-> t % d]

\* n / d in float for n >= 0 and d > 0: the quotient of the mantissas to 28
\* binary places, rounded to MantissaBits significant bits.
FloatDiv(n, d) ==
    IF n.m = 0 THEN n
    ELSE LET s0 == [q |-> n.m \div d.m, r |-> n.m % d.m]
             s4 == DivStep(DivStep(DivStep(DivStep(s0, d.m), d.m), d.m), d.m)
             drop == IF s0.q = 1 THEN 5 ELSE 4
             unit == Pow2(drop)
             kept == s4.q \div unit
             rem  == s4.q % unit
             m == kept + (IF RoundsUp(kept, rem, unit \div 2, s4.r # 0)
                          THEN 1 ELSE 0)
             x == n.x - d.x + drop - 28
         IN  IF m = Pow2(MantissaBits) THEN [m |-> m \div 2, x |-> x + 1]
             ELSE [m |-> m, x |-> x]

\* q * 2.f, which is exact.
Scaled_none(q) == q

Scaled(q) == IF q.m = 0 THEN q ELSE [q EXCEPT !.x = @ + 1]

\* f - 1.f in float for 0 <= f <= 2, in units of 2^-25 (every float of
\* magnitude at most 1 that the subtraction can yield is a multiple of it).
FloatMinusOne(f) ==
    IF f.m = 0 THEN -FloatOne
    ELSE IF f.x >= -23 THEN (f.m - Pow2(-f.x)) * Pow2(f.x + 25)
    ELSE IF f.x = -24 THEN -((Pow2(MantissaBits) - f.m) * 2)
    ELSE LET k == -f.x - 24 IN
         IF k > MantissaBits THEN -FloatOne
         ELSE LET unit == Pow2(k)
                  kept == f.m \div unit
                  rem  == f.m % unit
                  t == kept + (IF RoundsUp(kept, rem, unit \div 2, FALSE)
                               THEN 1 ELSE 0)
              IN  -((Pow2(MantissaBits) - t) * 2)

\* sample_converter<int_t>::convert for one sample:
\* ((float)value - (float)min) / range * 2.f - 1.f
convert(int_t, value) ==
    FloatMinusOne(
        Scaled(FloatDiv(Normalised(FloatSub(ToFloat(value),
                                            ToFloat(numeric_limits_min(int_t)))),
                        Normalised(range(int_t)))))

\* What AbstractSampleConverter::make_converter returns or throws.
NoError == [what |-> "none", letter |-> "", bits |-> 0]

Made(converter) == [converter |-> converter, error |-> NoError]

UnsupportedFormat_null(what, letter, bits) == Made("null")

UnsupportedFormat(what, letter, bits) ==
    [converter |-> "unset",
     error |-> [what |-> what, letter |-> letter, bits |-> bits]]

make_converter(sample_type, bits) ==
    CASE sample_type = "SignedInt" ->
           (CASE bits = 16 -> Made("int16_t")
              [] bits = 32 -> Made("int32_t")
              [] OTHER -> UnsupportedFormat("unsupported sample format",
                                            "s", bits))
      [] sample_type = "UnSignedInt" ->
           (CASE bits = 16 -> Made("uint16_t")
              [] bits = 32 -> Made("uint32_t")
              [] OTHER -> UnsupportedFormat("unsupported sample format",
                                            "u", bits))
      [] sample_type = "Float" ->
           (CASE bits = 32 -> Made("null")
              [] OTHER -> UnsupportedFormat("unsupported sample format",
                                            "f", bits))
      [] OTHER -> UnsupportedFormat("unknown sample format", "", 0)

\* AudioInputSource(device, format): nothing is chosen before start().
InitConvVars ==
    /\ c_pc = "new"
    /\ c_sample_type = "Float"
    /\ c_sample_size = 32
    /\ m_converter = "unset"
    /\ c_error = NoError
    /\ c_last = "none"
    /\ c_in = IntOf(FALSE, 0, 0)
    /\ c_raw = 0
    /\ c_out = 0
    /\ c_nconv = 0

\* AudioInputSource::start(): make_converter either yields m_converter or
\* throws out of start().
AudioInputSource_start ==
    /\ c_pc = "new"
    /\ LET made == make_converter(c_sample_type, c_sample_size) IN
         /\ m_converter' = made.converter
         /\ c_error' = made.error
         /\ c_pc' = IF made.error = NoError THEN "started" ELSE "failed"
    /\ UNCHANGED <<c_sample_type, c_sample_size, c_last, c_in, c_raw, c_out,
                   c_nconv>>

\* The samples the device delivers to a converter of the given type.
SamplesOf(int_t) ==
    {PlusSmall(numeric_limits_min(int_t), k) : k \in 0..MaxOffset}
       \cup {MinusSmall(numeric_limits_max(int_t), k) : k \in 0..MaxOffset}
       \cup {IntOf(FALSE, 0, k) : k \in 0..MaxOffset}
       \cup (IF int_t \in {"int32_t", "uint32_t"}
             THEN {IntOf(FALSE, 256, k) : k \in 0..MaxOffset}
             ELSE {IntOf(FALSE, 0, 16384 + k) : k \in 0..MaxOffset})

\* AudioInputSource::read_samples with a converter, for one sample:
\* IntToFloatConverter<int_t>::read_and_convert.
read_and_convert(value) ==
    /\ c_pc = "started"
    /\ m_converter \in IntTypes
    /\ c_nconv < MaxConversions
    /\ c_in' = value
    /\ c_out' = convert(m_converter, value)
    /\ c_last' = "converted"
    /\ c_nconv' = c_nconv + 1
    /\ UNCHANGED <<c_pc, c_sample_type, c_sample_size, m_converter, c_error,
                   c_raw>>

\* AudioInputSource::read_samples without a converter, for one sample: the
\* bytes of the device are read into dest as they are.
read_samples_raw(sample) ==
    /\ c_pc = "started"
    /\ m_converter = "null"
    /\ c_nconv < MaxConversions
    /\ c_raw' = sample
    /\ c_out' = sample
    /\ c_last' = "raw"
    /\ c_nconv' = c_nconv + 1
    /\ UNCHANGED <<c_pc, c_sample_type, c_sample_size, m_converter, c_error,
                   c_in>>

NextConv ==
    \/ AudioInputSource_start
          /\ UNCHANGED <<qvars, ovars, pvars, evars, rvars, fvars, dvars, tvars, gvars>>
    \/ \E int_t \in IntTypes : \E value \in SamplesOf(int_t) :
          /\ int_t = m_converter
          /\ read_and_convert(value)
          /\ UNCHANGED <<qvars, ovars, pvars, evars, rvars, fvars, dvars, tvars, gvars>>
    \/ \E sample \in RawSamples :
          read_samples_raw(sample)
             /\ UNCHANGED <<qvars, ovars, pvars, evars, rvars, fvars, dvars, tvars, gvars>>

(***************************************************************************)
(* The way of a SampleBlock from the pump to the analyzers: the signal     *)
(* AudioPipe::samples_available, relayed by Engine::samples_available to   *)
(* the slots of RMSProcessor and FFTProcessor                              *)
(***************************************************************************)
\* The processors connected to Engine::samples_available, each moved to a
\* thread of its own.
Analyzers == {"rms", "fft"}

\* The event loops of the Engine's thread and of the analyzers' threads are
\* empty, no analyzer is in its slot, and the AudioPipe to come is not yet
\* connected to the Engine.
InitDeliverVars ==
    /\ d_connected = FALSE
    /\ d_engine_events = <<>>
    /\ d_events = [a \in Analyzers |-> <<>>]
    /\ d_busy = [a \in Analyzers |-> <<>>]
    /\ d_done = [a \in Analyzers |-> <<>>]

\* Engine::rebuild_pipe after make_unique<AudioPipe>: the constructor has
\* returned, the Engine connects samples_available of the pipe to its own
\* signal.
rebuild_pipe_connect ==
    /\ ctor_return
    /\ d_connected' = TRUE
    /\ UNCHANGED <<d_engine_events, d_events, d_busy, d_done>>

\* What emit does with a connection whose receiver lives in another thread:
\* the call is appended to the receiver's event queue, and emit returns.
Posted_front(events, block) == <<block>> \o events

Posted(events, block) == Append(events, block)

\* emit samples_available(block) in run(), on the pump thread: the block is
\* posted to the Engine's thread if the connection exists; without a
\* connection the signal has no receiver.
emit_samples_available ==
    /\ run_publish
    /\ d_engine_events' =
          IF d_connected
          THEN Posted(d_engine_events, p_published'[Len(p_published')])
          ELSE d_engine_events
    /\ UNCHANGED <<d_connected, d_events, d_busy, d_done>>

\* The Engine's thread, back in its event loop, takes the first event:
\* Engine::samples_available is emitted, each of the queued connections of
\* the processors posts the block to the thread of its processor.
Engine_samples_available ==
    /\ client_pc \in {"idle", "destroyed"}
    /\ ProcessAlive
    /\ d_engine_events # <<>>
    /\ d_engine_events' = Tail(d_engine_events)
    /\ d_events' = [a \in Analyzers |->
                      Posted(d_events[a], Head(d_engine_events))]
    /\ UNCHANGED <<d_connected, d_busy, d_done>>

\* The thread of an analyzer takes the first event and enters the slot
\* process_samples(input_block).
slot_process_samples(a) ==
    /\ ProcessAlive
    /\ d_busy[a] = <<>>
    /\ d_events[a] # <<>>
    /\ d_busy' = [d_busy EXCEPT ![a] = <<Head(d_events[a])>>]
    /\ d_events' = [d_events EXCEPT ![a] = Tail(@)]
    /\ UNCHANGED <<d_connected, d_engine_events, d_done>>

\* The slot returns.
slot_return(a) ==
    /\ ProcessAlive
    /\ d_busy[a] # <<>>
    /\ d_done' = [d_done EXCEPT ![a] = @ \o d_busy[a]]
    /\ d_busy' = [d_busy EXCEPT ![a] = <<>>]
    /\ UNCHANGED <<d_connected, d_engine_events, d_events>>

\* The Engine stops or destroys the pipe only after rebuild_pipe is through.
NextDeliver ==
    \/ ctor_start_thread /\ UNCHANGED <<qvars, ovars, evars, rvars, fvars, xvars>>
    \/ rebuild_pipe_connect /\ UNCHANGED <<qvars, ovars, evars, rvars, fvars, cvars, tvars, gvars>>
    \/ \E ok \in BOOLEAN : run_start_source(ok) /\ UNCHANGED <<qvars, ovars, evars, rvars, fvars, xvars>>
    \/ \E ok \in BOOLEAN : run_start_sink(ok) /\ UNCHANGED <<qvars, ovars, evars, rvars, fvars, xvars>>
    \/ run_notify /\ UNCHANGED <<qvars, ovars, evars, rvars, fvars, xvars>>
    \/ run_loop_test /\ UNCHANGED <<qvars, ovars, evars, rvars, fvars, xvars>>
    \/ run_read_fail /\ UNCHANGED <<qvars, ovars, evars, rvars, fvars, xvars>>
    \/ run_read_empty /\ UNCHANGED <<qvars, ovars, evars, rvars, fvars, xvars>>
    \/ \E samples \in ReadBlocks :
          run_read_block(samples) /\ UNCHANGED <<qvars, ovars, evars, rvars, fvars, xvars>>
    \/ emit_samples_available /\ UNCHANGED <<qvars, ovars, evars, rvars, fvars, cvars, tvars, gvars>>
    \/ run_write /\ UNCHANGED <<qvars, ovars, evars, rvars, fvars, xvars>>
    \/ run_exit /\ UNCHANGED <<qvars, ovars, evars, rvars, fvars, xvars>>
    \/ d_connected /\ stop_call /\ UNCHANGED <<qvars, ovars, evars, rvars, fvars, xvars>>
    \/ stop_return /\ UNCHANGED <<qvars, ovars, evars, rvars, fvars, xvars>>
    \/ d_connected /\ dtor_call /\ UNCHANGED <<qvars, ovars, evars, rvars, fvars, xvars>>
    \/ dtor_return /\ UNCHANGED <<qvars, ovars, evars, rvars, fvars, xvars>>
    \/ Engine_samples_available /\ UNCHANGED <<qvars, ovars, pvars, evars, rvars, fvars, cvars, tvars, gvars>>
    \/ \E a \in Analyzers :
          slot_process_samples(a) /\ UNCHANGED <<qvars, ovars, pvars, evars, rvars, fvars, cvars, tvars, gvars>>
    \/ \E a \in Analyzers :
          slot_return(a) /\ UNCHANGED <<qvars, ovars, pvars, evars, rvars, fvars, cvars, tvars, gvars>>

(***************************************************************************)
(* AudioOutputDriver: write_samples on the pump thread and time() on a     *)
(* consumer's thread, with m_time_mutex                                    *)
(***************************************************************************)
\* the pair of members the claim about time() is about
TimePair(delay, dropped) == [delay |-> delay, dropped |-> dropped]

\* No call is in progress and the mutex is free.
InitTimeVars ==
    /\ m_time_mutex = "free"
    /\ w_pc = "idle"
    /\ w_effect = [drops |-> FALSE, before |-> TimePair(0, 0),
                   after |-> TimePair(0, 0)]
    /\ t_pc = "idle"
    /\ t_seen = TimePair(-1, -1)
    /\ t_calls = 0

\* write_samples(samples) up to the std::lock_guard of the branch taken: the
\* writes to the device and the changes of the overflow buffer.
write_samples_begin(frames, acc1, acc2) ==
    /\ o_state = "started"
    /\ w_pc = "idle"
    /\ WriteInputs(frames, acc1, acc2)
    /\ LET effect == WriteEffect(frames, acc1, acc2) IN
         /\ dev_written' = effect.dev_written
         /\ m_outer_buffer' = effect.outer_buffer
         /\ o_samples' = effect.samples
         /\ o_residue' = effect.residue
         /\ o_submitted' = o_submitted + Len(effect.samples)
         /\ w_effect' = [drops |-> effect.drops,
                         before |-> TimePair(m_outer_buffer_delay, m_dropped),
                         after |-> TimePair(effect.delay, effect.dropped)]
    /\ w_pc' = "lock"
    /\ o_op' = "write"
    /\ o_time_before' = AudioOutputDriver_time
    /\ o_pre_dev' = dev_written
    /\ o_pre_outer' = m_outer_buffer
    /\ o_pre_dropped' = m_dropped
    /\ UNCHANGED <<o_state, o_channels, o_rate, m_buffer_msecs, m_drop_msecs,
                   m_drop_samples, m_t0, m_buffer_delay, dev_processed,
                   dev_steps, m_dropped, m_outer_buffer_delay>>
    /\ UNCHANGED <<m_time_mutex, t_pc, t_seen, t_calls>>

\* std::lock_guard<std::shared_timed_mutex> lock(m_time_mutex)
write_samples_lock ==
    /\ w_pc = "lock"
    /\ m_time_mutex = "free"
    /\ m_time_mutex' = "exclusive"
    /\ w_pc' = IF w_effect.drops THEN "dropped" ELSE "delay"
    /\ UNCHANGED <<ovars, w_effect, t_pc, t_seen, t_calls>>

\* m_dropped += ..., in the drop branch only
write_samples_dropped ==
    /\ w_pc = "dropped"
    /\ m_dropped' = w_effect.after.dropped
    /\ w_pc' = "delay"
    /\ o_op' = "write"
    /\ UNCHANGED <<o_state, o_channels, o_rate, m_buffer_msecs, m_drop_msecs,
                   m_drop_samples, m_t0, m_buffer_delay, m_outer_buffer,
                   m_outer_buffer_delay, dev_processed, dev_steps,
                   dev_written, o_submitted, ohist>>
    /\ UNCHANGED <<m_time_mutex, w_effect, t_pc, t_seen, t_calls>>

\* m_outer_buffer_delay = 0 of the drop branch, update_buffer_delay() of the
\* other two
write_samples_delay ==
    /\ w_pc = "delay"
    /\ m_outer_buffer_delay' = w_effect.after.delay
    /\ w_pc' = "unlock"
    /\ o_op' = "write"
    /\ UNCHANGED <<o_state, o_channels, o_rate, m_buffer_msecs, m_drop_msecs,
                   m_drop_samples, m_t0, m_buffer_delay, m_outer_buffer,
                   m_dropped, dev_processed, dev_steps, dev_written,
                   o_submitted, ohist>>
    /\ UNCHANGED <<m_time_mutex, w_effect, t_pc, t_seen, t_calls>>

\* return: the lock_guard releases the mutex
write_samples_return ==
    /\ w_pc = "unlock"
    /\ m_time_mutex' = "free"
    /\ w_pc' = "idle"
    /\ UNCHANGED <<ovars, w_effect, t_pc, t_seen, t_calls>>

\* Whether a shared lock can be taken: not while the mutex is held
\* exclusively.
CanLockShared_always(mutex) == TRUE

CanLockShared(mutex) == mutex # "exclusive"

\* time(): std::shared_lock<std::shared_timed_mutex> lock(m_time_mutex)
time_lock ==
    /\ o_state = "started"
    /\ t_pc = "idle"
    /\ t_calls < MaxTimeCalls
    /\ CanLockShared(m_time_mutex)
    /\ m_time_mutex' = "shared"
    /\ t_pc' = "read"
    /\ t_seen' = TimePair(-1, -1)
    /\ t_calls' = t_calls + 1
    /\ UNCHANGED <<ovars, w_pc, w_effect>>

\* The operands of the return expression are read one by one, in an order
\* the language leaves open.
time_read_delay ==
    /\ t_pc = "read"
    /\ t_seen.delay = -1
    /\ t_seen' = [t_seen EXCEPT !.delay = m_outer_buffer_delay]
    /\ UNCHANGED <<ovars, m_time_mutex, w_pc, w_effect, t_pc, t_calls>>

time_read_dropped ==
    /\ t_pc = "read"
    /\ t_seen.dropped = -1
    /\ t_seen' = [t_seen EXCEPT !.dropped = m_dropped]
    /\ UNCHANGED <<ovars, m_time_mutex, w_pc, w_effect, t_pc, t_calls>>

\* return: the shared_lock releases the mutex
time_return ==
    /\ t_pc = "read"
    /\ t_seen.delay # -1
    /\ t_seen.dropped # -1
    /\ m_time_mutex' = IF m_time_mutex = "shared" THEN "free"
                       ELSE m_time_mutex
    /\ t_pc' = "idle"
    /\ UNCHANGED <<ovars, w_pc, w_effect, t_seen, t_calls>>

NextTime ==
    \/ \E now \in 0..1 : AudioOutputDriver_start(now) /\ UNCHANGED <<qvars, pvars, evars, rvars, fvars, xvars>>
    \/ \E frames \in 1..MaxFrames, acc1, acc2 \in 0..MaxSubmitted :
          write_samples_begin(frames, acc1, acc2) /\ UNCHANGED <<qvars, pvars, evars, rvars, fvars, cvars, dvars, gvars>>
    \/ write_samples_lock /\ UNCHANGED <<qvars, pvars, evars, rvars, fvars, cvars, dvars, gvars>>
    \/ write_samples_dropped /\ UNCHANGED <<qvars, pvars, evars, rvars, fvars, cvars, dvars, gvars>>
    \/ write_samples_delay /\ UNCHANGED <<qvars, pvars, evars, rvars, fvars, cvars, dvars, gvars>>
    \/ write_samples_return /\ UNCHANGED <<qvars, pvars, evars, rvars, fvars, cvars, dvars, gvars>>
    \/ time_lock /\ UNCHANGED <<qvars, pvars, evars, rvars, fvars, cvars, dvars, gvars>>
    \/ time_read_delay /\ UNCHANGED <<qvars, pvars, evars, rvars, fvars, cvars, dvars, gvars>>
    \/ time_read_dropped /\ UNCHANGED <<qvars, pvars, evars, rvars, fvars, cvars, dvars, gvars>>
    \/ time_return /\ UNCHANGED <<qvars, pvars, evars, rvars, fvars, cvars, dvars, gvars>>

(***************************************************************************)
(* FFTProcessor as a function of its input: what a fresh instance emits    *)
(* for a sequence of SampleBlocks                                          *)
(***************************************************************************)
\* FFTProcessor(engine, size, period_msec): m_sample_rate and
\* m_shift_remaining are 0, m_in_buffer is empty; m_t is not initialised,
\* it holds whatever the memory held.
FreshFFT(garbage_t) ==
    [t |-> garbage_t, sample_rate |-> 0, shift_remaining |-> 0,
     in_buffer |-> <<>>]

\* The while loop of process_samples: the RealFFTBlocks it emits and the
\* members it leaves.
RECURSIVE WindowsOf(_, _, _)
WindowsOf(size, period_msec, s) ==
    LET shift == Shift(period_msec, s.sample_rate)
        n == Len(s.in_buffer)
        block == [t |-> s.t,
                  fmax |-> [num |-> s.sample_rate, den |-> 2],
                  window |-> SubSeq(s.in_buffer, 1, size)]
    IN IF n < size THEN [s |-> s, out |-> <<>>]
       ELSE IF shift >= n
       THEN [s |-> [s EXCEPT !.shift_remaining = ShiftRemainder(shift, n),
                             !.t = @ + UsecsOf(n, s.sample_rate),
                             !.in_buffer = AfterLastWindow(@)],
             out |-> <<block>>]
       ELSE LET rest == WindowsOf(size, period_msec,
                           [s EXCEPT !.in_buffer = DropFirst(@, shift),
                                     !.t = @ + UsecsOf(shift, s.sample_rate)])
            IN  [s |-> rest.s, out |-> <<block>> \o rest.out]

\* One call of process_samples(input_block).
ProcessedBy(size, period_msec, s, data) ==
    LET rate_differs == s.sample_rate # data.sample_rate
        buffer1 == IF rate_differs THEN ClearedBuffer(s.in_buffer)
                   ELSE s.in_buffer
        shift1 == IF rate_differs THEN 0 ELSE s.shift_remaining
        t1 == IF rate_differs \/ buffer1 = <<>> THEN ResyncTime(data.t, s.t)
              ELSE s.t
        n == Len(data.mono_samples)
    IN IF shift1 > 0 /\ shift1 >= n
       THEN [s |-> [t |-> t1 + UsecsOf(n, data.sample_rate),
                    sample_rate |-> data.sample_rate,
                    shift_remaining |-> RemainderAfterSkip(shift1, n),
                    in_buffer |-> buffer1],
             out |-> <<>>]
       ELSE WindowsOf(size, period_msec,
                      [t |-> t1 + UsecsOf(shift1, data.sample_rate),
                       sample_rate |-> data.sample_rate,
                       shift_remaining |-> 0,
                       in_buffer |-> buffer1
                                       \o DropFirst(data.mono_samples,
                                                    shift1)])

\* All the RealFFTBlocks an instance in state s emits for the blocks.
RECURSIVE EmittedFor(_, _, _, _)
EmittedFor(size, period_msec, s, blocks) ==
    IF blocks = <<>> THEN <<>>
    ELSE LET r == ProcessedBy(size, period_msec, s, Head(blocks))
         IN  r.out \o EmittedFor(size, period_msec, r.s, Tail(blocks))

InitRunVars ==
    /\ fft_blocks = <<>>
    /\ fft_all = <<>>

\* The slot of the instance the model runs, with what it is given and what
\* it emits written down.
recorded_process_samples(rate, n, late) ==
    /\ FftInput(rate, n, late)
    /\ fft_blocks' = Append(fft_blocks, fft_in')
    /\ UNCHANGED fft_all

recorded_window ==
    /\ FFT_process_samples_window
    /\ fft_all' = Append(fft_all, fft_out'[Len(fft_out')])
    /\ UNCHANGED fft_blocks

recorded_return ==
    /\ FFT_process_samples_return
    /\ UNCHANGED <<fft_blocks, fft_all>>

NextRun ==
    \/ \E rate \in FftRates, n \in 0..MaxFftLen, late \in BOOLEAN :
          recorded_process_samples(rate, n, late) /\ UNCHANGED <<qvars, ovars, pvars, evars, rvars, cvars, dvars, tvars>>
    \/ recorded_window /\ UNCHANGED <<qvars, ovars, pvars, evars, rvars, cvars, dvars, tvars>>
    \/ recorded_return /\ UNCHANGED <<qvars, ovars, pvars, evars, rvars, cvars, dvars, tvars>>

(***************************************************************************)
(* Specifications                                                          *)
(***************************************************************************)
\* The components added to the first six, as constructed.
InitXVars ==
    /\ InitConvVars
    /\ InitDeliverVars
    /\ InitTimeVars
    /\ InitRunVars

InitQueue ==
    /\ \E k \in 0..MaxBlocks : InitQueueVars(k)
    /\ InitOutVars(1, 1000, 1, 1)
    /\ InitPipeVars(1, 1000)
    /\ InitEngineVars
    /\ InitRMSVars
    /\ InitXVars
    /\ InitFFTVars(2, 1)

SpecQueue == InitQueue /\ [][NextQueue]_vars

InitOut ==
    /\ InitQueueVars(1)
    /\ \E channels \in 1..MaxChannels, rate \in SampleRates,
          buffer_msecs \in 1..MaxBufferMsecs, drop_msecs \in 0..MaxDropMsecs :
          InitOutVars(channels, rate, buffer_msecs, drop_msecs)
    /\ InitPipeVars(1, 1000)
    /\ InitEngineVars
    /\ InitRMSVars
    /\ InitXVars
    /\ InitFFTVars(2, 1)

SpecOut == InitOut /\ [][NextOut]_vars

InitPipe ==
    /\ InitQueueVars(1)
    /\ InitOutVars(1, 1000, 1, 1)
    /\ \E channels \in 1..MaxChannels, rate \in SampleRates :
          InitPipeVars(channels, rate)
    /\ InitEngineVars
    /\ InitRMSVars
    /\ InitXVars
    /\ InitFFTVars(2, 1)

SpecPipe == InitPipe /\ [][NextPipe]_vars

\* The Engine before its first call: the source that will be set has
\* p_channels channels and the rate p_rate; there is no AudioPipe yet.
InitEngine ==
    /\ InitQueueVars(1)
    /\ InitOutVars(1, 1000, 1, 1)
    /\ InitEngineVars
    /\ InitRMSVars
    /\ InitXVars
    /\ InitFFTVars(2, 1)
    /\ p_channels \in 1..MaxChannels
    /\ p_rate = 1000
    /\ m_terminated = FALSE
    /\ m_new_source_thread = "null"
    /\ m_startup_done = FALSE
    /\ m_source = "null"
    /\ m_sink = "null"
    /\ m_sample_buffer = <<>>
    /\ src_state = "new"
    /\ src_thread = "caller"
    /\ sink_state = "new"
    /\ pump_pc = "unstarted"
    /\ pump_t = 0
    /\ client_pc = "destroyed"
    /\ p_nreads = 0
    /\ p_nstops = 0
    /\ p_starts = <<>>
    /\ p_reads = <<>>
    /\ p_published = <<>>
    /\ p_sink_writes = <<>>
    /\ p_stop = [ret |-> "none", running |-> FALSE, terminated |-> FALSE,
                 returned |-> FALSE]
    /\ p_failed = FALSE
    /\ p_term_mark = NoTermMark

SpecEngine == InitEngine /\ [][NextEngine]_vars

InitRMS ==
    /\ InitQueueVars(1)
    /\ InitOutVars(1, 1000, 1, 1)
    /\ InitPipeVars(1, 1000)
    /\ InitEngineVars
    /\ InitRMSVars
    /\ InitXVars
    /\ InitFFTVars(2, 1)

SpecRMS == InitRMS /\ [][NextRMS]_vars

InitFFT ==
    /\ InitQueueVars(1)
    /\ InitOutVars(1, 1000, 1, 1)
    /\ InitPipeVars(1, 1000)
    /\ InitEngineVars
    /\ InitRMSVars
    /\ InitXVars
    /\ \E size \in FftSizes, period_msec \in 1..MaxPeriodMsec :
          InitFFTVars(size, period_msec)

SpecFFT == InitFFT /\ [][NextFFT]_vars

SpecRMSAny == InitRMS /\ [][NextRMSAny]_vars

InitFFTAny ==
    /\ InitQueueVars(1)
    /\ InitOutVars(1, 1000, 1, 1)
    /\ InitPipeVars(1, 1000)
    /\ InitEngineVars
    /\ InitRMSVars
    /\ InitXVars
    /\ \E size \in FftSizes, period_msec \in 0..MaxPeriodMsec :
          InitFFTVars(size, period_msec)

SpecFFTAny == InitFFTAny /\ [][NextFFTAny]_vars

InitConv ==
    /\ InitQueueVars(1)
    /\ InitOutVars(1, 1000, 1, 1)
    /\ InitPipeVars(1, 1000)
    /\ InitEngineVars
    /\ InitRMSVars
    /\ InitFFTVars(2, 1)
    /\ c_pc = "new"
    /\ c_sample_type \in SampleTypes
    /\ c_sample_size \in SampleSizes
    /\ m_converter = "unset"
    /\ c_error = NoError
    /\ c_last = "none"
    /\ c_in = IntOf(FALSE, 0, 0)
    /\ c_raw = 0
    /\ c_out = 0
    /\ c_nconv = 0
    /\ InitDeliverVars
    /\ InitTimeVars
    /\ InitRunVars

SpecConv == InitConv /\ [][NextConv]_vars

InitDeliver ==
    /\ InitQueueVars(1)
    /\ InitOutVars(1, 1000, 1, 1)
    /\ InitPipeVars(1, 1000)
    /\ InitEngineVars
    /\ InitRMSVars
    /\ InitFFTVars(2, 1)
    /\ InitConvVars
    /\ InitDeliverVars
    /\ InitTimeVars
    /\ InitRunVars

SpecDeliver == InitDeliver /\ [][NextDeliver]_vars

InitTime ==
    /\ InitQueueVars(1)
    /\ \E drop_msecs \in 1..MaxDropMsecs : InitOutVars(1, 1000, 1, drop_msecs)
    /\ InitPipeVars(1, 1000)
    /\ InitEngineVars
    /\ InitRMSVars
    /\ InitFFTVars(2, 1)
    /\ InitConvVars
    /\ InitDeliverVars
    /\ InitTimeVars
    /\ InitRunVars

SpecTime == InitTime /\ [][NextTime]_vars

\* Two parameters of the constructor, and what m_t happens to hold.
InitRun ==
    /\ InitQueueVars(1)
    /\ InitOutVars(1, 1000, 1, 1)
    /\ InitPipeVars(1, 1000)
    /\ InitEngineVars
    /\ InitRMSVars
    /\ \E size \in FftSizes, period_msec \in 1..MaxPeriodMsec :
          /\ m_size = size
          /\ m_period_msec = period_msec
    /\ fft_t \in GarbageTimes
    /\ fft_sample_rate = 0
    /\ m_shift_remaining = 0
    /\ m_in_buffer = <<>>
    /\ fft_pc = "idle"
    /\ fft_in = [t |-> 0, sample_rate |-> 0, mono_samples |-> <<>>]
    /\ fft_out = <<>>
    /\ fft_pre_buffer = <<>>
    /\ fft_pre_shift = 0
    /\ fft_changed = FALSE
    /\ fft_change = [t |-> 0, id |-> 0, n |-> 0, emitted |-> 0]
    /\ fft_prev_start = -1
    /\ fft_calls = 0
    /\ fft_nsamples = 0
    /\ fft_nlate = 0
    /\ fft_nchanges = 0
    /\ InitConvVars
    /\ InitDeliverVars
    /\ InitTimeVars
    /\ InitRunVars

SpecRun == InitRun /\ [][NextRun]_vars

(***************************************************************************)
(* Claims about TimedDataQueue                                             *)
(***************************************************************************)

\* C1: fetch_up_to(t) never delivers an item whose timestamp is greater
\* than t, whatever pushes and fetches came before.
C1_FetchNeverEarly ==
    q_op = "fetch" => \A i \in 1..Len(q_out) : q_out[i].t <= q_arg

\* A fetch delivered something and left a later item in the queue.
C1_Witness ==
    /\ q_op = "fetch"
    /\ q_out # <<>>
    /\ m_blocks # <<>>
    /\ Head(m_blocks).t > q_arg

\* C2: a push on a queue that holds m_max_blocks items pops exactly one
\* item, the front one, and appends the new one behind the rest, whose order
\* is kept; a push on a queue with fewer items pops nothing.
C2_PushEvictsOldest ==
    q_op = "push" =>
        /\ Len(q_pre) = m_max_blocks =>
               /\ Len(q_evicted) = 1
               /\ q_evicted[1] = q_pre[1]
               /\ m_blocks = Append(Tail(q_pre), q_arg)
        /\ Len(q_pre) < m_max_blocks =>
               /\ q_evicted = <<>>
               /\ m_blocks = Append(q_pre, q_arg)

\* C3: the queue never holds more than m_max_blocks items, for every
\* capacity the constructor accepts.
C3_NeverMoreThanK == Len(m_blocks) <= m_max_blocks

(***************************************************************************)
(* Claims about AudioOutputDriver                                          *)
(***************************************************************************)

\* C4: time() never decreases over write_samples calls while the device's
\* processed time does not decrease.
C4_TimeNeverDecreases ==
    o_op = "write" => AudioOutputDriver_time >= o_time_before

\* C5: a write_samples call that discards audio leaves the overflow buffer
\* empty and its delay zero, adds the duration of the discarded audio (its
\* frames at the format's sample rate) to m_dropped, and does not move
\* time() backwards.
C5_DropEffects ==
    LET lost == Len(o_pre_dev) + Len(o_pre_outer) + Len(o_samples)
                  - Len(dev_written) - Len(m_outer_buffer)
    IN (o_op = "write" /\ lost > 0) =>
         /\ m_outer_buffer = <<>>
         /\ m_outer_buffer_delay = 0
         /\ m_dropped - o_pre_dropped =
               (lost * 1000000) \div (o_rate * o_channels)
         /\ AudioOutputDriver_time >= o_time_before

\* C6 as stated: audio is discarded exactly when the overflow buffer is
\* non-empty after the drain and its length plus the block's length exceeds
\* m_drop_samples; otherwise every sample is on the device or in the
\* overflow buffer, in submission order.
C6_DropWhenExceeds ==
    LET lost == Len(o_pre_dev) + Len(o_pre_outer) + Len(o_samples)
                  - Len(dev_written) - Len(m_outer_buffer)
    IN o_op = "write" =>
         /\ (lost > 0) <=>
               /\ o_residue # <<>>
               /\ Len(o_residue) + Len(o_samples) > m_drop_samples
         /\ (lost = 0) =>
               dev_written \o m_outer_buffer =
                 o_pre_dev \o o_pre_outer \o o_samples

\* C6 amended: audio is discarded exactly when the overflow buffer is
\* non-empty after the drain and its length plus the block's length reaches
\* or exceeds m_drop_samples; otherwise every sample is on the device or in
\* the overflow buffer, in submission order.
C6_DropWhenReaches ==
    LET lost == Len(o_pre_dev) + Len(o_pre_outer) + Len(o_samples)
                  - Len(dev_written) - Len(m_outer_buffer)
    IN o_op = "write" =>
         /\ (lost > 0) <=>
               /\ o_residue # <<>>
               /\ Len(o_residue) + Len(o_samples) >= m_drop_samples
         /\ (lost = 0) =>
               dev_written \o m_outer_buffer =
                 o_pre_dev \o o_pre_outer \o o_samples

\* A write discarded audio with the total exactly at the threshold.
C6_Witness ==
    /\ o_op = "write"
    /\ o_residue # <<>>
    /\ Len(o_residue) + Len(o_samples) = m_drop_samples
    /\ m_outer_buffer = <<>>
    /\ m_dropped > o_pre_dropped

(***************************************************************************)
(* Claims about AudioPipe                                                  *)
(***************************************************************************)

\* C7: every successful non-empty read is published exactly once as a
\* SampleBlock stamped with the read's time, and then its original samples
\* are written to the sink exactly once; publications and writes follow the
\* order of the reads.
C7_OnePublishOneWritePerRead ==
    /\ Len(p_published) <= Len(p_reads)
    /\ Len(p_sink_writes) <= Len(p_published)
    /\ Len(p_reads) - Len(p_sink_writes) <= 1
    /\ \A i \in 1..Len(p_published) : p_published[i].t = p_reads[i].t
    /\ \A i \in 1..Len(p_sink_writes) : p_sink_writes[i] = p_reads[i].samples
    /\ pump_pc \in {"loop", "read", "exit", "finished", "aborted"} =>
          /\ Len(p_published) = Len(p_reads)
          /\ Len(p_sink_writes) = Len(p_reads)

\* Two different multichannel blocks were read, published and written.
C7_Witness ==
    /\ p_channels > 1
    /\ Len(p_reads) = 2
    /\ Len(p_sink_writes) = 2
    /\ p_reads[1].samples # p_reads[2].samples

\* C8: every published SampleBlock carries one mono sample per captured
\* frame, for every channel count >= 1.
C8_OneMonoSamplePerFrame ==
    \A i \in 1..Len(p_published) :
        Len(p_published[i].mono_samples) * p_channels = Len(p_reads[i].samples)

\* C9: a stop() call on a pipe whose thread is not running or whose
\* termination was already requested returns no source and changes nothing;
\* any other stop() call sets m_terminated, returns only once the pump thread
\* has exited, and returns the source the pipe was constructed with, stopped
\* and not destroyed.
C9_Stop ==
    [][ /\ (p_nstops' # p_nstops /\ (~isRunning \/ m_terminated)) =>
              /\ p_stop'.returned /\ p_stop'.ret = "null"
              /\ UNCHANGED <<m_terminated, m_new_source_thread, m_source,
                             m_sink, src_state, src_thread, sink_state,
                             pump_pc, client_pc, m_startup_done>>
        /\ (p_nstops' # p_nstops /\ isRunning /\ ~m_terminated) =>
              /\ m_terminated'
              /\ ~p_stop'.returned
        /\ (~p_stop.returned /\ p_stop'.returned /\ p_nstops' = p_nstops) =>
              /\ pump_pc = "finished"
              /\ p_stop'.ret = "src"
              /\ src_state = "stopped"
      ]_vars

\* A stop() returned the source, and a second stop() returned nothing.
C9_Witness ==
    /\ p_nstops = 2
    /\ p_stop.returned
    /\ p_stop.ret = "null"
    /\ src_state = "stopped"
    /\ m_source = "null"
    /\ pump_pc = "finished"

\* C10: the constructor has returned only if the pump thread has called
\* start() on the source and then start() on the sink.
C10_CtorReturnsAfterStarts ==
    client_pc \notin {"ctor", "ctor_wait"} => p_starts = <<"source", "sink">>

\* The constructor has returned and the pump is in its loop.
C10_Witness ==
    /\ client_pc = "idle"
    /\ pump_pc = "read"
    /\ src_state = "started"
    /\ sink_state = "started"

\* C11: a failed read ends the pump loop at once: the read is not retried,
\* and nothing is published or written to the sink afterwards.
C11_ReadFailureEndsPump ==
    [][ /\ (~p_failed /\ p_failed') =>
              pump_pc' \notin {"loop", "read", "publish", "write"}
        /\ p_failed => UNCHANGED <<p_nreads, p_published, p_sink_writes>>
      ]_vars

\* A read failed after an earlier block had been published and written.
C11_Witness ==
    /\ p_failed
    /\ Len(p_published) = 1
    /\ Len(p_sink_writes) = 1

\* C12: when start() of the source or of the sink fails, the failure reaches
\* the caller: the caller does not stay blocked in the constructor waiting
\* for m_startup_done.  (An aborted pump is a final state: no thread takes
\* a step afterwards.)
C12_StartFailureSurfaced ==
    (pump_pc = "aborted" /\ ~p_failed) => client_pc \notin {"ctor", "ctor_wait"}


(***************************************************************************)
(* Claims about Engine                                                     *)
(***************************************************************************)

\* A step is a rejected call: an error is raised, and the running state, the
\* latched source, the output device and the pump are as before.
EngineCallRejected ==
    /\ e_op'.err # "none"
    /\ UNCHANGED <<m_audio_pipe, m_source_latch, m_output_device_info, e_pc,
                   e_pipes, pvars>>

\* C13: start() while running, start() with no source, stop() while stopped,
\* set_source and set_output_device while running each raise an error and
\* leave the running state, the latched source and the pump unchanged.
C13_RejectedCallsChangeNothing ==
    [][ e_calls' # e_calls =>
          /\ (e_op'.call \in {"start", "set_source", "set_output_device"}
                 /\ m_audio_pipe # "null") => EngineCallRejected
          /\ (e_op'.call = "start" /\ m_source_latch = "null")
                 => EngineCallRejected
          /\ (e_op'.call = "stop" /\ m_audio_pipe = "null")
                 => EngineCallRejected
      ]_vars

\* set_source was rejected while the pump had a block between its publish
\* and its write.
C13_Witness ==
    /\ e_op = [call |-> "set_source", err |-> "already running"]
    /\ m_audio_pipe = "pipe"
    /\ pump_pc = "write"

\* C14: a stop() after a start() leaves the Engine not running and holding
\* the source again; a following start() passes its checks without a
\* set_source in between and constructs a fresh pump around that source,
\* for any number of cycles.
C14_StartStopCycles ==
    [][ /\ (e_pc = "stop_returned" /\ e_pc' = "idle") =>
              /\ m_audio_pipe' = "null"
              /\ m_source_latch' = "src"
              /\ src_state' = "stopped"
              /\ src_thread' = "caller"
        /\ (e_calls' # e_calls /\ e_op'.call = "start"
               /\ e_op = [call |-> "stop", err |-> "none"]) =>
              /\ e_op'.err = "none"
              /\ e_pipes' = e_pipes + 1
              /\ m_source' = "src"
              /\ m_source_latch' = "null"
              /\ pump_pc' = "unstarted"
              /\ ~m_terminated'
              /\ ~m_startup_done'
              /\ m_new_source_thread' = "null"
              /\ sink_state' = "new"
      ]_vars

\* The pump of a second start() has published a block.
C14_Witness ==
    /\ e_pipes = 2
    /\ m_audio_pipe = "pipe"
    /\ e_op = [call |-> "start", err |-> "none"]
    /\ p_published # <<>>

(***************************************************************************)
(* Claims about RMSProcessor                                               *)
(***************************************************************************)

\* the RMSBlock emitted last in the current call
LastEmitted == rms_out[Len(rms_out)]

\* the timestamp of the RMSBlock emitted before LastEmitted in the current
\* run of blocks of one rate, -1 when there is none
EmittedBefore ==
    IF Len(rms_out) >= 2 THEN rms_out[Len(rms_out) - 1].t ELSE rms_prev_emit

\* C15: over a run of blocks of one rate R, however it is split into
\* blocks, as many RMSBlocks are emitted as R/10 samples fit into the
\* samples received (R/10 the integer quotient), and the k-th of them is
\* computed over the k-th R/10 consecutive samples of the run: no sample is
\* skipped, none is used twice.
C15_OneBlockPerWindow ==
    LET per_block == PerBlock(rms_in.sample_rate)
    IN /\ (rms_calls > 0 /\ rms_pc = "idle") =>
             rms_run.emitted = rms_run.total \div per_block
       /\ rms_out # <<>> =>
             /\ Len(LastEmitted.window) = per_block
             /\ \A i \in 1..per_block :
                   LastEmitted.window[i].id =
                      rms_run.first_id + (rms_run.emitted - 1) * per_block
                         + i - 1

\* A run of three blocks whose sizes are no multiples of the window gave
\* one RMSBlock per full window, the last across a block boundary.
C15_Witness ==
    /\ rms_pc = "idle"
    /\ rms_calls = 3
    /\ rms_nchanges = 0
    /\ PerBlock(rms_in.sample_rate) = 2
    /\ rms_run.total = 7
    /\ rms_run.emitted = 3
    /\ rms_pre_buffer # <<>>
    /\ rms_sample_buffer # <<>>

\* C16: when a block's rate differs from the rate of the block before, the
\* buffered samples are discarded and the timestamp base is the new block's
\* time: every RMSBlock of that call is computed from samples of the new
\* block only, the first of them carries the block's time, and no RMSBlock
\* ever has samples of two rates in its window.
C16_RateChangeResyncs ==
    /\ \A i \in 1..Len(rms_out) : \A j \in 1..Len(rms_out[i].window) :
          rms_out[i].window[j].rate = rms_in.sample_rate
    /\ rms_changed =>
          /\ \A i \in 1..Len(rms_out) : \A j \in 1..Len(rms_out[i].window) :
                rms_out[i].window[j].id >=
                   rms_nsamples - Len(rms_in.mono_samples)
          /\ \A j \in 1..Len(rms_sample_buffer) :
                rms_sample_buffer[j].id >=
                   rms_nsamples - Len(rms_in.mono_samples)
          /\ rms_out # <<>> => rms_out[1].t = rms_in.t
          /\ (rms_out = <<>> /\ rms_pc = "idle") => rms_t0 = rms_in.t

\* The rate changed while a sample of the old rate was buffered, and the
\* call emitted an RMSBlock.
C16_Witness ==
    /\ rms_changed
    /\ rms_pre_buffer # <<>>
    /\ rms_out # <<>>
    /\ rms_pc = "idle"

\* the maximum of the RMS values s[1..n], 0 when there is none
RECURSIVE MaxOf(_, _)
MaxOf(s, n) == IF n = 0 THEN RmsZero ELSE RmsMax(MaxOf(s, n - 1), s[n])

\* C17: the recent_peak of an RMSBlock is the maximum of the last 32 RMS
\* values produced, its own curr included, and 0 while fewer than 32 exist;
\* so recent_peak >= curr, and a value more than 32 RMSBlocks old does not
\* count.
C17_RecentPeak ==
    rms_out # <<>> =>
       /\ RmsEq(LastEmitted.recent_peak, MaxOf(rms_hist, Len(rms_hist)))
       /\ ~RmsLess(LastEmitted.recent_peak, LastEmitted.curr)
       /\ RmsEq(rms_hist[Len(rms_hist)], LastEmitted.curr)

\* The one non-zero sample was in a window more than 32 RMSBlocks ago, and
\* the recent peak is back to 0.
C17_Witness ==
    /\ rms_nloud = 1
    /\ rms_nchanges = 0
    /\ \A j \in 1..Len(rms_sample_buffer) : rms_sample_buffer[j].v = 0
    /\ Len(rms_hist) = BacklogSize
    /\ rms_run.emitted > BacklogSize
    /\ rms_out # <<>>
    /\ RmsEq(LastEmitted.recent_peak, RmsZero)

\* The run of the current call has a rate that is a multiple of 10, and each
\* of its blocks was stamped with the capture time of its first sample.
ConstantRateStream ==
    /\ rms_in.sample_rate % 10 = 0
    /\ rms_run.consistent

\* C18: in such a stream every RMSBlock carries the capture time of the
\* first sample of its window, and two consecutive RMSBlocks are exactly
\* 100 ms apart, whatever the block sizes.
C18_WindowTimestamps ==
    (rms_out # <<>> /\ ConstantRateStream) =>
       /\ LastEmitted.t =
             rms_run.t_first
               + ((LastEmitted.window[1].id - rms_run.first_id) * 1000000)
                    \div rms_in.sample_rate
       /\ EmittedBefore # -1 => LastEmitted.t - EmittedBefore = 100000

\* A window that began in the block before was stamped in the third block
\* of such a stream.
C18_Witness ==
    /\ ConstantRateStream
    /\ rms_calls = 3
    /\ rms_nchanges = 0
    /\ rms_pre_buffer # <<>>
    /\ Len(rms_out) = 1
    /\ EmittedBefore # -1
    /\ LastEmitted.window[1].id < rms_nsamples - Len(rms_in.mono_samples)

\* C19: within a run of blocks of one rate, which arrive with non-decreasing
\* timestamps, no RMSBlock carries an earlier timestamp than the RMSBlock
\* emitted before it.
C19_EmittedInTimeOrder ==
    (rms_out # <<>> /\ EmittedBefore # -1) => EmittedBefore <= LastEmitted.t

(***************************************************************************)
(* Claims about FFTProcessor                                               *)
(***************************************************************************)

\* the id of the first sample of the block of the current call
FftBlockStart == fft_nsamples - Len(fft_in.mono_samples)

\* C20: when a block's rate differs from the rate of the block before, the
\* buffered samples and the pending rest of a shift are dropped and the
\* time base is the new block's time: the buffer and every RealFFTBlock of
\* the call hold samples of the new block only, the first RealFFTBlock
\* begins at the block's first sample and carries the block's time; no
\* RealFFTBlock ever has samples of two rates, and the first RealFFTBlock
\* after the change, in whichever call it is emitted, carries the time of
\* the block that brought the new rate.
C20_SpectrumRateChangeResyncs ==
    /\ \A i \in 1..Len(fft_out) : \A j \in 1..Len(fft_out[i].window) :
          fft_out[i].window[j].rate = fft_in.sample_rate
    /\ \A j \in 1..Len(m_in_buffer) :
          m_in_buffer[j].rate = fft_in.sample_rate
    /\ fft_changed =>
          /\ \A i \in 1..Len(fft_out) : \A j \in 1..Len(fft_out[i].window) :
                fft_out[i].window[j].id >= FftBlockStart
          /\ \A j \in 1..Len(m_in_buffer) : m_in_buffer[j].id >= FftBlockStart
          /\ fft_out # <<>> =>
                /\ fft_out[1].t = fft_in.t
                /\ fft_out[1].window[1].id = FftBlockStart
          /\ fft_out = <<>> =>
                /\ fft_t = fft_in.t
                /\ m_shift_remaining = 0
                /\ m_in_buffer = fft_in.mono_samples
    /\ (fft_out # <<>> /\ fft_change.emitted = 1 /\ fft_change.n > 0) =>
          /\ fft_out[Len(fft_out)].t = fft_change.t
          /\ fft_out[Len(fft_out)].window[1].id = fft_change.id

\* The rate changed while samples of the old rate were buffered; the new
\* block was too short for a transform, which came with the block after.
C20_Witness ==
    /\ fft_calls > 2
    /\ fft_nchanges = 1
    /\ ~fft_changed
    /\ fft_change.id > 0
    /\ fft_change.emitted = 1
    /\ fft_out # <<>>
    /\ fft_out[1].window[1].id < FftBlockStart
    /\ fft_pc = "idle"

\* the id of the first sample of the RealFFTBlock emitted before the last
\* one in the current run of blocks of one rate, -1 when there is none
FftStartBefore ==
    IF Len(fft_out) >= 2 THEN fft_out[Len(fft_out) - 1].window[1].id
    ELSE fft_prev_start

\* C21: in a stream of one rate the windows of two consecutive RealFFTBlocks
\* begin exactly shift samples apart, whether the shift is shorter than the
\* buffered samples (the windows overlap) or reaches past them (the samples
\* in between are skipped, over any number of blocks).
C21_WindowsShiftApart ==
    (fft_out # <<>> /\ FftStartBefore # -1) =>
       fft_out[Len(fft_out)].window[1].id - FftStartBefore
          = Shift(m_period_msec, fft_in.sample_rate)

\* A shift of 4 samples past a window of 3: the rest of the shift was
\* taken from a later block, from whose middle the next window begins.
C21_Witness ==
    /\ fft_out # <<>>
    /\ FftStartBefore # -1
    /\ Shift(m_period_msec, fft_in.sample_rate) > m_size
    /\ fft_pre_shift > 0
    /\ fft_out[1].window[1].id > FftBlockStart
    /\ fft_pc = "idle"

\* C27: fetch_up_to(t) delivers, in queue order, exactly the longest front
\* run of items with timestamp <= t and leaves every other item in the
\* queue in its order; an item with timestamp <= t that lies behind an item
\* with a later timestamp stays in the queue.
C27_FetchExactFrontRun ==
    q_op = "fetch" =>
       /\ q_pre = q_out \o m_blocks
       /\ \A i \in 1..Len(q_out) : q_out[i].t <= q_arg
       /\ m_blocks # <<>> => Head(m_blocks).t > q_arg

\* A fetch delivered the front run and left, behind a later item, an item
\* whose timestamp the clock had already passed.
C27_Witness ==
    /\ q_op = "fetch"
    /\ q_out # <<>>
    /\ \E i \in 2..Len(m_blocks) : m_blocks[i].t <= q_arg

\* the sum of the samples c, c - 1, .., 1 of the given frame of interleaved
\* samples
RECURSIVE FrameSum(_, _, _, _)
FrameSum(samples, frame, channels, c) ==
    IF c = 0 THEN 0
    ELSE samples[(frame - 1) * channels + c]
         + FrameSum(samples, frame, channels, c - 1)

\* C24: with more than one channel, mono sample i of every published
\* SampleBlock is the sum (not the mean) of the samples of frame i of the
\* block read, and the sink is handed the interleaved samples as they were
\* read.
C24_DownmixSums ==
    p_channels > 1 =>
       /\ \A i \in 1..Len(p_published) :
             /\ Len(p_published[i].mono_samples) * p_channels
                   = Len(p_reads[i].samples)
             /\ \A k \in 1..Len(p_published[i].mono_samples) :
                   p_published[i].mono_samples[k]
                      = FrameSum(p_reads[i].samples, k, p_channels, p_channels)
       /\ \A i \in 1..Len(p_sink_writes) :
             p_sink_writes[i] = p_reads[i].samples

\* A block of two frames whose sums differ from their means and from each
\* other was published and written to the sink.
C24_Witness ==
    /\ p_channels > 1
    /\ Len(p_sink_writes) >= 1
    /\ Len(p_published[1].mono_samples) = 2
    /\ p_published[1].mono_samples[1] # p_published[1].mono_samples[2]
    /\ p_published[1].mono_samples[1] > p_reads[1].samples[1]
    /\ Len(p_sink_writes[1]) = 2 * p_channels

\* the ids of a sequence of samples grow from front to back
InSubmissionOrder(s) == \A i \in 1..(Len(s) - 1) : s[i] < s[i + 1]

\* C30: the device receives samples in the order write_samples was given
\* them: a call first hands the overflow buffer to the device, and while
\* samples of it remain none of the samples of the new block is written;
\* what the device did not accept waits in the overflow buffer behind
\* everything written and ahead of everything submitted later.
C30_OutputInSubmissionOrder ==
    /\ InSubmissionOrder(dev_written \o m_outer_buffer)
    /\ o_op = "write" =>
          /\ \E k \in 0..Len(o_pre_outer) :
                /\ o_residue = SubSeq(o_pre_outer, k + 1, Len(o_pre_outer))
                /\ SubSeq(dev_written, 1, Len(o_pre_dev) + k)
                      = o_pre_dev \o SubSeq(o_pre_outer, 1, k)
          /\ o_residue # <<>> =>
                \A i \in 1..Len(dev_written), j \in 1..Len(o_samples) :
                   dev_written[i] # o_samples[j]
          /\ o_residue = <<>> =>
                \E k \in 0..Len(o_samples) :
                   dev_written = o_pre_dev \o o_pre_outer
                                    \o SubSeq(o_samples, 1, k)

\* A call drained a part of the overflow buffer only and kept its block
\* behind the residue; the device holds samples of two earlier calls.
C30_Witness ==
    /\ o_op = "write"
    /\ o_residue # <<>>
    /\ Len(o_residue) < Len(o_pre_outer)
    /\ Len(m_outer_buffer) > Len(o_residue)
    /\ Len(o_pre_dev) > 0

\* C28: once m_terminated is set (by stop() or by the destructor) the pump
\* completes at most one further read, publishes at most one further
\* SampleBlock and forwards at most one further block to the sink; a pump
\* found at a read after that has not completed a read since, so the read
\* in progress is the last one and the loop ends at the test that follows
\* it.
C28_AtMostOneBlockAfterStop ==
    p_term_mark.reads >= 0 =>
       /\ m_terminated
       /\ p_nreads - p_term_mark.reads <= 1
       /\ Len(p_published) - p_term_mark.published <= 1
       /\ Len(p_sink_writes) - p_term_mark.writes <= 1
       /\ pump_pc = "read" => p_nreads = p_term_mark.reads
       /\ (pump_pc = "loop" /\ p_nreads > p_term_mark.reads) =>
             Len(p_sink_writes) = Len(p_published)

\* stop() set m_terminated before the pump had read anything; the pump
\* read, published and forwarded one block and then left the loop.
C28_Witness ==
    /\ p_term_mark.reads = 0
    /\ p_nreads = 1
    /\ Len(p_published) = 1
    /\ Len(p_sink_writes) = 1
    /\ pump_pc = "finished"
    /\ MaxReads > 1

(***************************************************************************)
(* Claims about the sample converters                                      *)
(***************************************************************************)

\* C25: for each integer sample type (signed and unsigned, 16 and 32 bit)
\* the converter maps the minimum of the type to exactly -1 and the maximum
\* of the type to exactly +1.
C25_ExtremesMapToUnit ==
    c_last = "converted" =>
       /\ c_in = numeric_limits_min(m_converter) => c_out = -FloatOne
       /\ c_in = numeric_limits_max(m_converter) => c_out = FloatOne

\* The maximum of int32_t, which (float) rounds up to 2^31, was converted.
C25_Witness ==
    /\ c_last = "converted"
    /\ m_converter = "int32_t"
    /\ c_in = numeric_limits_max("int32_t")
    /\ c_out = FloatOne

\* the formats make_converter accepts
AcceptedFormats ==
    {<<"SignedInt", 16>>, <<"SignedInt", 32>>, <<"UnSignedInt", 16>>,
     <<"UnSignedInt", 32>>, <<"Float", 32>>}

\* C26: start() yields a converter for signed and unsigned 16 and 32 bit
\* samples and no converter (samples are passed through as read) for 32 bit
\* float; every other pair of sample type and size makes start() throw,
\* leaves no converter and no read ever happens.
C26_ConverterSelection ==
    c_pc # "new" =>
       /\ <<c_sample_type, c_sample_size>> \in AcceptedFormats =>
             /\ c_pc = "started"
             /\ c_error = NoError
             /\ m_converter =
                   (CASE c_sample_type = "Float" -> "null"
                      [] c_sample_type = "SignedInt" /\ c_sample_size = 16
                           -> "int16_t"
                      [] c_sample_type = "SignedInt" /\ c_sample_size = 32
                           -> "int32_t"
                      [] c_sample_type = "UnSignedInt" /\ c_sample_size = 16
                           -> "uint16_t"
                      [] c_sample_type = "UnSignedInt" /\ c_sample_size = 32
                           -> "uint32_t")
             /\ c_sample_type = "Float" =>
                   /\ c_last # "converted"
                   /\ c_last = "raw" => c_out = c_raw
             /\ c_sample_type # "Float" => c_last # "raw"
       /\ <<c_sample_type, c_sample_size>> \notin AcceptedFormats =>
             /\ c_pc = "failed"
             /\ c_error.what # "none"
             /\ m_converter = "unset"
             /\ c_last = "none"

\* start() threw for 24 bit signed samples.
C26_Witness ==
    /\ c_pc = "failed"
    /\ c_sample_type = "SignedInt"
    /\ c_sample_size = 24
    /\ c_error.letter = "s"

(***************************************************************************)
(* Claims about the signal path                                            *)
(***************************************************************************)

\* the blocks that have reached, or are on their way to, an analyzer
OnTheWay(a) == d_done[a] \o d_busy[a] \o d_events[a] \o d_engine_events

\* C23: every SampleBlock the pump publishes reaches each analyzer, in the
\* order of publication and once: the blocks an analyzer has processed, is
\* processing and has still queued are the published blocks, in order; and
\* the pump at its emit can always take the step, whatever the analyzers
\* are doing.
C23_PublishedBlocksDelivered ==
    /\ \A a \in Analyzers : OnTheWay(a) = p_published
    /\ pump_pc = "publish" => ENABLED emit_samples_available

\* What the signal path does keep: the blocks on their way are the last of
\* the published blocks, in the order of publication, each once.
ConnectedBlocksDelivered ==
    \A a \in Analyzers :
       /\ Len(OnTheWay(a)) <= Len(p_published)
       /\ OnTheWay(a) = SubSeq(p_published,
                               Len(p_published) - Len(OnTheWay(a)) + 1,
                               Len(p_published))

(***************************************************************************)
(* Claims about time() and write_samples at m_time_mutex                   *)
(***************************************************************************)

\* C29: a time() call that runs while write_samples runs reads
\* m_outer_buffer_delay and m_dropped either both as they were before the
\* update of that write_samples call or both as they are after it; it never
\* reads one of the two from before and the other from after.
C29_TimeSeesConsistentPair ==
    (t_pc = "read" /\ t_seen.delay # -1 /\ t_seen.dropped # -1) =>
       t_seen \in {w_effect.before, w_effect.after}

\* time() has read both members while a write_samples call that drops, and
\* will change both, waits for the mutex.
C29_Witness ==
    /\ t_pc = "read"
    /\ t_seen.delay > 0
    /\ t_seen.dropped # -1
    /\ w_pc = "lock"
    /\ w_effect.drops
    /\ w_effect.after.delay # w_effect.before.delay
    /\ w_effect.after.dropped # w_effect.before.dropped

(***************************************************************************)
(* Claims about FFTProcessor as a function of its input                    *)
(***************************************************************************)

\* C22: two fresh FFTProcessors of the same size and period that are given
\* the same sequence of SampleBlocks emit the same number of RealFFTBlocks,
\* with the same timestamps and over the same windows of samples (of which
\* the magnitudes are the transform): whatever a fresh instance's
\* uninitialised m_t holds, it emits what the instance of the run emitted.
C22_SameInputSameSpectra ==
    fft_pc = "idle" =>
       \A g \in GarbageTimes :
          EmittedFor(m_size, m_period_msec, FreshFFT(g), fft_blocks) = fft_all

\* Four blocks with a change of rate and a late block were processed, and
\* at least three RealFFTBlocks came out.
C22_Witness ==
    /\ fft_pc = "idle"
    /\ Len(fft_blocks) >= 3
    /\ Len(fft_all) >= 3
    /\ fft_nchanges = 1
    /\ \E i \in 2..Len(fft_all) : fft_all[i].t # fft_all[i - 1].t

(***************************************************************************)
(* Claims about the overflow buffer of AudioOutputDriver                   *)
(***************************************************************************)

\* C31 as stated: after every write_samples call the overflow buffer holds
\* fewer samples than the drop threshold m_drop_samples.
C31_OverflowBelowThreshold ==
    o_op = "write" => Len(m_outer_buffer) < m_drop_samples

\* C31 amended: after every write_samples call the overflow buffer is
\* empty or holds fewer samples than the drop threshold, or the call found
\* the overflow buffer empty after the drain and the buffer holds what the
\* device did not accept of the block just submitted, however long that
\* is; a buffer at or above the threshold is never older than one call.
C31_OverflowBelowThresholdOrOneBlock ==
    o_op = "write" =>
       \/ m_outer_buffer = <<>>
       \/ Len(m_outer_buffer) < m_drop_samples
       \/ /\ o_residue = <<>>
          /\ \E k \in 0..Len(o_samples) :
                m_outer_buffer = SubSeq(o_samples, k + 1, Len(o_samples))

\* A call with a threshold of at least one sample left an overflow buffer
\* longer than the threshold.
C31_Witness ==
    /\ o_op = "write"
    /\ m_drop_samples > 0
    /\ Len(m_outer_buffer) > m_drop_samples
    /\ o_pre_outer # <<>>

\* The duration of interleaved samples of the output format, microseconds:
\* one frame of o_channels samples lasts 1 / o_rate seconds.
DurationOf(nsamples) == (nsamples * 1000000) \div (o_rate * o_channels)

\* C32: after any sequence of write_samples calls every submitted sample
\* is accounted for exactly once: it is on the device or in the overflow
\* buffer, once, or it was discarded by a call that added the duration of
\* what it discarded (in whole microseconds) to m_dropped; and on return
\* the stored m_outer_buffer_delay is the duration of the samples in the
\* overflow buffer.
C32_EverySampleAccounted ==
    LET kept == dev_written \o m_outer_buffer
        lost == Len(o_pre_dev) + Len(o_pre_outer) + Len(o_samples)
                  - Len(kept)
    IN /\ \A i \in 1..Len(kept) : kept[i] \in 1..o_submitted
       /\ \A i, j \in 1..Len(kept) : kept[i] = kept[j] => i = j
       /\ o_op = "write" =>
             /\ lost >= 0
             /\ m_dropped - o_pre_dropped = DurationOf(lost)
             /\ m_outer_buffer_delay = DurationOf(Len(m_outer_buffer))

(***************************************************************************)
(* Claims about the shift remainder and the buffers of the processors      *)
(***************************************************************************)

C34_EmptyReadOnlyRetries ==
    [][/\ (/\ pump_pc = "read"
           /\ p_nreads' = p_nreads + 1
           /\ ~p_failed'
           /\ m_sample_buffer' = <<>>) =>
              /\ pump_pc' = "loop"
              /\ UNCHANGED <<p_published, p_sink_writes, m_source, m_sink,
                             src_state, src_thread, sink_state, m_terminated,
                             m_new_source_thread>>
       /\ pump_pc' \in {"publish", "write"} => m_sample_buffer' # <<>>
       /\ (pump_pc = "loop" /\ pump_pc' # "loop") =>
              pump_pc' = IF m_terminated THEN "exit" ELSE "read"]_vars

\* The first read was empty, nothing was published or written, and the pump
\* is at the read again.
C34_Witness ==
    /\ pump_pc = "read"
    /\ p_nreads = 1
    /\ ~p_failed
    /\ m_sample_buffer = <<>>
    /\ p_published = <<>>
    /\ p_sink_writes = <<>>
    /\ src_state = "started"

\* The holders of the source: the latch of the Engine, the m_source of the
\* pump, and the value AudioPipe::stop has returned and Engine::stop is
\* about to store in the latch.
Holders ==
    (IF m_source_latch # "null" THEN 1 ELSE 0)
    + (IF m_source # "null" THEN 1 ELSE 0)
    + (IF e_pc = "stop_returned" /\ p_stop.ret \notin {"null", "none"}
       THEN 1 ELSE 0)

\* C35: the source is never held by the latch and by the pump at once;
\* a running Engine has an empty latch and its pump holds the source, a
\* stopped Engine has no pump that holds one; a pump is made only when
\* there is none or the one before has exited and was destroyed; and no
\* step but an accepted set_source changes the number of holders, so a
\* stop() hands the source of the pump back to the latch.
C35_SourceHasOneOwner ==
    [][ /\ Holders' <= 1
        /\ m_audio_pipe' = "pipe" => m_source_latch' = "null"
        /\ (m_audio_pipe' = "pipe" /\ e_pc' # "stop_returned") =>
               m_source' = "src"
        /\ (m_audio_pipe' = "null" /\ e_pc' = "idle") => m_source' = "null"
        /\ e_pipes' # e_pipes =>
               \/ e_pipes = 0
               \/ pump_pc = "finished" /\ client_pc = "destroyed"
        /\ ~(e_calls' # e_calls /\ e_op'.call = "set_source"
                /\ e_op'.err = "none") => Holders' = Holders
      ]_vars

\* The pump of a second start() holds the source that a stop() had handed
\* back to the latch.
C35_Witness ==
    /\ e_pipes = 2
    /\ pump_pc = "read"
    /\ m_source = "src"
    /\ m_source_latch = "null"
    /\ e_pc = "idle"

\* C36: whenever the pump thread has exited after it had started the
\* source and the sink, by the end of run() after a termination request or
\* by the exception of a failed read, the pump has stopped the source and
\* the sink.
C36_ExitedPumpStoppedBoth ==
    (ThreadExited /\ m_startup_done) =>
       /\ src_state \in {"stopped", "destroyed"}
       /\ sink_state = "stopped"

(***************************************************************************)
(* Claims about the loops of the processors                                *)
(***************************************************************************)

\* C37: RMSProcessor::process_samples returns after finitely many
\* emissions: every pass of its loop that emits an RMSBlock leaves
\* m_sample_buffer shorter, so the loop ends after at most as many passes
\* as there are samples in the buffer.
C37_RmsPassConsumes ==
    [][(rms_pc = "loop" /\ rms_out' # rms_out) =>
          Len(rms_sample_buffer') < Len(rms_sample_buffer)]_vars

\* C38: FFTProcessor::process_samples returns after finitely many
\* emissions: every pass of its loop that emits a RealFFTBlock leaves
\* m_in_buffer shorter, so the loop ends after at most as many passes as
\* there are samples in the buffer.
C38_FftPassConsumes ==
    [][(fft_pc = "loop" /\ fft_out' # fft_out) =>
          Len(m_in_buffer') < Len(m_in_buffer)]_vars

\* C39: after every FFTProcessor::process_samples call m_in_buffer holds
\* fewer than m_size samples, and whenever m_shift_remaining is not zero
\* m_in_buffer is empty.
C39_BufferBelowSize ==
    fft_pc = "idle" =>
       /\ Len(m_in_buffer) < m_size
       /\ m_shift_remaining # 0 => m_in_buffer = <<>>

\* A call that found a remainder pending has emitted RealFFTBlocks and
\* returned with samples left in the buffer.
C39_Witness ==
    /\ fft_pc = "idle"
    /\ fft_calls >= 2
    /\ m_in_buffer # <<>>
    /\ fft_pre_shift > 0
    /\ fft_out # <<>>

\* C40: after every RMSProcessor::process_samples call m_sample_buffer
\* holds fewer than m_sample_rate / 10 samples; during a call it holds no
\* more than what was left by the call before, less than a window, and the
\* incoming block.
C40_BufferBelowWindow ==
    /\ (rms_pc = "idle" /\ rms_calls > 0) =>
          Len(rms_sample_buffer) < rms_sample_rate \div 10
    /\ rms_calls > 0 =>
          /\ Len(rms_pre_buffer) < rms_in.sample_rate \div 10
                \/ rms_changed \/ rms_calls = 1
          /\ Len(rms_sample_buffer)
                <= Len(rms_pre_buffer) + Len(rms_in.mono_samples)

\* A call has returned with samples left in the buffer after it emitted
\* RMSBlocks.
C40_Witness ==
    /\ rms_pc = "idle"
    /\ rms_calls >= 2
    /\ rms_sample_buffer # <<>>
    /\ rms_out # <<>>
    /\ rms_pre_buffer # <<>>

=============================================================================
